---- MODULE Spec2Model ----
(***************************************************************************)
(* Model of go-cron: the concurrent paged fetcher                          *)
(* (fetchAllItemsConcurrently / worker), the compare-and-sync engine       *)
(* (SyncService.CompareAndSync, generateHandle, normalizeTitle), the       *)
(* product repository and the HTTP entry point (Handler).                  *)
(***************************************************************************)
EXTENDS Integers, Sequences, FiniteSets, TLC

\* ------------------------------------------------------------------ bounds
MaxTotal == 4
MaxWorkers == 2
MaxRemote == 2
MaxStore == 2
MaxRuns == 2
MaxTitleLen == 2

\* ------------------------------------------------------- program constants
HandlerPageSize == 20
HandlerNumWorkers == 2

VARIABLES
    \* --- fetchAllItemsConcurrently
    totalCount, pageSize, numWorkers,
    cancelled,              \* ctx.Done() is closed
    jobs, jobsClosed,       \* chan PageJob, cap numWorkers*2
    results, resultsClosed, \* chan PageResult, cap numWorkers*2
    skip, subPC,            \* job-sending goroutine
    wPC, wJob, wRes,        \* worker goroutines
    allResults, collDone,   \* collector goroutine, resultWg
    mPC, retItems, retErr, retSkip, \* caller of fetchAllItemsConcurrently
    fetchCount,             \* remote service: page requests received per offset
    fetchFailed,            \* remote service: offsets whose request was answered with an error
    inFlight,               \* per worker: calls of fetchItemsPage that have not returned
    \* --- SyncService.CompareAndSync
    store,                  \* products table
    externalItems, sPC, run, rerun,
    dbProducts, dbProductMap, itemsToCreate, itemsToUpdate,
    result, syncErr, createG, updateG, errChan,
    createCalls, updateCalls,
    syncRet,                \* which *SyncResult CompareAndSync returned
    storeReadOnly,          \* the database rejects INSERT and UPDATE
    readCalls,              \* calls of GetAllProducts made by the pass
    \* --- Handler
    hPC, cronSecret, authHeader, sessionID, itemCount,
    status, respMsg, respBody,
    loginCalls, countCalls, logoutCalls, logoutErr,
    loginErr, countErr,     \* the err returned by login and by getItemCount
    \* --- generateHandle / normalizeTitle applied to one title
    kPC, kTitle, kHandle, kKey,
    kOther, kOtherKey,      \* a second title and its key
    \* --- a second CompareAndSync call running against the same store
    qPC, qExternalItems, qDbProducts, qItemsToCreate, qItemsToUpdate,
    qCreateG, qUpdateG

fetchVars == <<totalCount, pageSize, numWorkers, cancelled, jobs, jobsClosed,
               results, resultsClosed, skip, subPC, wPC, wJob, wRes,
               allResults, collDone, mPC, retItems, retErr, retSkip, fetchCount, fetchFailed,
               inFlight>>

syncVars == <<store, externalItems, sPC, run, rerun, dbProducts, dbProductMap,
              itemsToCreate, itemsToUpdate, result, syncErr, createG, updateG,
              errChan, createCalls, updateCalls, syncRet, storeReadOnly, readCalls>>

handlerVars == <<hPC, cronSecret, authHeader, sessionID, itemCount,
                 status, respMsg, respBody,
                 loginCalls, countCalls, logoutCalls, logoutErr,
                 loginErr, countErr>>

keyVars == <<kPC, kTitle, kHandle, kKey, kOther, kOtherKey>>

peerVars == <<qPC, qExternalItems, qDbProducts, qItemsToCreate, qItemsToUpdate,
              qCreateG, qUpdateG>>

vars == <<fetchVars, syncVars, handlerVars, keyVars, peerVars>>

\* ------------------------------------------------------------------ helpers
Min(a, b) == IF a < b THEN a ELSE b

Range(s) == {s[i] : i \in 1..Len(s)}

SeqsUpTo(S, n) == UNION {[1..k -> S] : k \in 0..n}

\* =========================================================================
\*  Paged fetcher
\* =========================================================================

\* the page sizes and totals the fetcher is called with
PageSizes == {1, 2, HandlerPageSize}
TotalCounts == (0..MaxTotal) \cup {47}
FetchInputs == {tp \in TotalCounts \X PageSizes :
                  (tp[1] + tp[2] - 1) \div tp[2] <= MaxTotal}

Workers == 0..(numWorkers - 1)

\* mutation of ChanCap: the channels hold at least one element
ChanCapAtLeastOne(n) == IF n = 0 THEN 1 ELSE n * 2

ChanCap(n) == n * 2

\* the remote service: the records of the page [skip, skip+top) of a
\* collection of total records
PageItems(sk, top, total) ==
    [i \in 1..Min(top, total - sk) |-> sk + i - 1]

PageJob(sk, top) == [Skip |-> sk, Top |-> top]

NoJob == [Skip |-> 0, Top |-> 0]
NoResult == [Items |-> <<>>, Skip |-> 0, Err |-> FALSE]

RecordFetch(fc, o) ==
    IF o \in DOMAIN fc THEN [fc EXCEPT ![o] = @ + 1] ELSE fc @@ (o :> 1)

\* mutation of NextSkip: the loop steps one past the page size
NextSkipOffByOne(sk, ps) == sk + ps + 1

NextSkip(sk, ps) == sk + ps

\* for skip := 0; skip < totalCount; skip += pageSize { select { case jobs <- ...
SubmitJob ==
    /\ subPC = "loop"
    /\ skip < totalCount
    /\ Len(jobs) < ChanCap(numWorkers)
    /\ jobs' = Append(jobs, PageJob(skip, pageSize))
    /\ skip' = NextSkip(skip, pageSize)
    /\ UNCHANGED <<totalCount, pageSize, numWorkers, cancelled, jobsClosed,
                   results, resultsClosed, subPC, wPC, wJob, wRes, allResults,
                   collDone, mPC, retItems, retErr, retSkip, fetchCount, fetchFailed>>
    /\ UNCHANGED inFlight
    /\ UNCHANGED <<syncVars, handlerVars, keyVars, peerVars>>

\* mutation of SubmitCancelled: the sender returns without closing jobs
SubmitCancelledNoClose ==
    /\ subPC = "loop"
    /\ skip < totalCount
    /\ cancelled
    /\ subPC' = "done"
    /\ UNCHANGED <<totalCount, pageSize, numWorkers, cancelled, jobs, jobsClosed,
                   results, resultsClosed, skip, wPC, wJob, wRes, allResults,
                   collDone, mPC, retItems, retErr, retSkip, fetchCount, fetchFailed>>
    /\ UNCHANGED inFlight
    /\ UNCHANGED <<syncVars, handlerVars, keyVars, peerVars>>

\* ... case <-ctx.Done(): close(jobs); return
SubmitCancelled ==
    /\ subPC = "loop"
    /\ skip < totalCount
    /\ cancelled
    /\ jobsClosed' = TRUE
    /\ subPC' = "done"
    /\ UNCHANGED <<totalCount, pageSize, numWorkers, cancelled, jobs,
                   results, resultsClosed, skip, wPC, wJob, wRes, allResults,
                   collDone, mPC, retItems, retErr, retSkip, fetchCount, fetchFailed>>
    /\ UNCHANGED inFlight
    /\ UNCHANGED <<syncVars, handlerVars, keyVars, peerVars>>

\* loop exhausted: close(jobs)
SubmitClose ==
    /\ subPC = "loop"
    /\ skip >= totalCount
    /\ jobsClosed' = TRUE
    /\ subPC' = "done"
    /\ UNCHANGED <<totalCount, pageSize, numWorkers, cancelled, jobs,
                   results, resultsClosed, skip, wPC, wJob, wRes, allResults,
                   collDone, mPC, retItems, retErr, retSkip, fetchCount, fetchFailed>>
    /\ UNCHANGED inFlight
    /\ UNCHANGED <<syncVars, handlerVars, keyVars, peerVars>>

\* for job := range jobs   (a job is received)
WorkerRecv(w) ==
    /\ wPC[w] = "range"
    /\ jobs # <<>>
    /\ wJob' = [wJob EXCEPT ![w] = Head(jobs)]
    /\ jobs' = Tail(jobs)
    /\ wPC' = [wPC EXCEPT ![w] = "select"]
    /\ UNCHANGED <<totalCount, pageSize, numWorkers, cancelled, jobsClosed,
                   results, resultsClosed, skip, subPC, wRes, allResults,
                   collDone, mPC, retItems, retErr, retSkip, fetchCount, fetchFailed>>
    /\ UNCHANGED inFlight
    /\ UNCHANGED <<syncVars, handlerVars, keyVars, peerVars>>

\* for job := range jobs   (jobs closed and drained: worker finished)
WorkerExit(w) ==
    /\ wPC[w] = "range"
    /\ jobs = <<>>
    /\ jobsClosed
    /\ wPC' = [wPC EXCEPT ![w] = "done"]
    /\ UNCHANGED <<totalCount, pageSize, numWorkers, cancelled, jobs, jobsClosed,
                   results, resultsClosed, skip, subPC, wJob, wRes, allResults,
                   collDone, mPC, retItems, retErr, retSkip, fetchCount, fetchFailed>>
    /\ UNCHANGED inFlight
    /\ UNCHANGED <<syncVars, handlerVars, keyVars, peerVars>>

\* mutation of WorkerCheck: the page is fetched without looking at ctx.Done()
WorkerCheckNoCancel(w) ==
    /\ wPC[w] = "select"
    /\ wPC' = [wPC EXCEPT ![w] = "fetching"]
    /\ fetchCount' = RecordFetch(fetchCount, wJob[w].Skip)
    /\ inFlight' = [inFlight EXCEPT ![w] = @ + 1]
    /\ UNCHANGED <<totalCount, pageSize, numWorkers, cancelled, jobs, jobsClosed,
                   results, resultsClosed, skip, subPC, wJob, wRes, allResults,
                   collDone, mPC, retItems, retErr, retSkip, fetchFailed>>
    /\ UNCHANGED <<syncVars, handlerVars, keyVars, peerVars>>

\* mutation of WorkerCheck: the page is fetched in a goroutine of its own and
\* the worker goes on to the next job
WorkerCheckAsync(w) ==
    /\ wPC[w] = "select"
    /\ IF cancelled
         THEN /\ wPC' = [wPC EXCEPT ![w] = "done"]
              /\ UNCHANGED <<fetchCount, inFlight>>
         ELSE /\ wPC' = [wPC EXCEPT ![w] = "range"]
              /\ fetchCount' = RecordFetch(fetchCount, wJob[w].Skip)
              /\ inFlight' = [inFlight EXCEPT ![w] = @ + 1]
    /\ UNCHANGED <<totalCount, pageSize, numWorkers, cancelled, jobs, jobsClosed,
                   results, resultsClosed, skip, subPC, wJob, wRes, allResults,
                   collDone, mPC, retItems, retErr, retSkip, fetchFailed>>
    /\ UNCHANGED <<syncVars, handlerVars, keyVars, peerVars>>

\* select { case <-ctx.Done(): return; default: fetchItemsPage(...) is called
WorkerCheck(w) ==
    /\ wPC[w] = "select"
    /\ IF cancelled
         THEN /\ wPC' = [wPC EXCEPT ![w] = "done"]
              /\ UNCHANGED <<fetchCount, inFlight>>
         ELSE /\ wPC' = [wPC EXCEPT ![w] = "fetching"]
              /\ fetchCount' = RecordFetch(fetchCount, wJob[w].Skip)
              /\ inFlight' = [inFlight EXCEPT ![w] = @ + 1]
    /\ UNCHANGED <<totalCount, pageSize, numWorkers, cancelled, jobs, jobsClosed,
                   results, resultsClosed, skip, subPC, wJob, wRes, allResults,
                   collDone, mPC, retItems, retErr, retSkip, fetchFailed>>
    /\ UNCHANGED <<syncVars, handlerVars, keyVars, peerVars>>

\* mutation of WorkerFetchReturn: a worker whose request failed returns
WorkerFetchReturnStopsOnError(w, err) ==
    /\ wPC[w] = "fetching"
    /\ wRes' = [wRes EXCEPT ![w] =
                  [Items |-> IF err THEN <<>>
                             ELSE PageItems(wJob[w].Skip, wJob[w].Top, totalCount),
                   Skip  |-> wJob[w].Skip,
                   Err   |-> err]]
    /\ wPC' = [wPC EXCEPT ![w] = IF err THEN "done" ELSE "send"]
    /\ fetchFailed' = IF err THEN fetchFailed \cup {wJob[w].Skip} ELSE fetchFailed
    /\ UNCHANGED <<totalCount, pageSize, numWorkers, cancelled, jobs, jobsClosed,
                   results, resultsClosed, skip, subPC, wJob, allResults,
                   collDone, mPC, retItems, retErr, retSkip, fetchCount>>
    /\ inFlight' = [inFlight EXCEPT ![w] = @ - 1]
    /\ UNCHANGED <<syncVars, handlerVars, keyVars, peerVars>>

\* items, err := fetchItemsPage(config, sessionID, job.Top, job.Skip) returns
WorkerFetchReturn(w, err) ==
    /\ wPC[w] = "fetching"
    /\ wRes' = [wRes EXCEPT ![w] =
                  [Items |-> IF err THEN <<>>
                             ELSE PageItems(wJob[w].Skip, wJob[w].Top, totalCount),
                   Skip  |-> wJob[w].Skip,
                   Err   |-> err]]
    /\ wPC' = [wPC EXCEPT ![w] = "send"]
    /\ fetchFailed' = IF err THEN fetchFailed \cup {wJob[w].Skip} ELSE fetchFailed
    /\ UNCHANGED <<totalCount, pageSize, numWorkers, cancelled, jobs, jobsClosed,
                   results, resultsClosed, skip, subPC, wJob, allResults,
                   collDone, mPC, retItems, retErr, retSkip, fetchCount>>
    /\ inFlight' = [inFlight EXCEPT ![w] = @ - 1]
    /\ UNCHANGED <<syncVars, handlerVars, keyVars, peerVars>>

\* select { case results <- result:   (a send on a closed channel would
\* panic; results is closed only after wg.Wait(), when no worker is here)
WorkerSend(w) ==
    /\ wPC[w] = "send"
    /\ ~resultsClosed
    /\ Len(results) < ChanCap(numWorkers)
    /\ results' = Append(results, wRes[w])
    /\ wPC' = [wPC EXCEPT ![w] = "range"]
    /\ UNCHANGED <<totalCount, pageSize, numWorkers, cancelled, jobs, jobsClosed,
                   resultsClosed, skip, subPC, wJob, wRes, allResults,
                   collDone, mPC, retItems, retErr, retSkip, fetchCount, fetchFailed>>
    /\ UNCHANGED inFlight
    /\ UNCHANGED <<syncVars, handlerVars, keyVars, peerVars>>

\* ... case <-ctx.Done(): return }
WorkerSendCancelled(w) ==
    /\ wPC[w] = "send"
    /\ cancelled
    /\ wPC' = [wPC EXCEPT ![w] = "done"]
    /\ UNCHANGED <<totalCount, pageSize, numWorkers, cancelled, jobs, jobsClosed,
                   results, resultsClosed, skip, subPC, wJob, wRes, allResults,
                   collDone, mPC, retItems, retErr, retSkip, fetchCount, fetchFailed>>
    /\ UNCHANGED inFlight
    /\ UNCHANGED <<syncVars, handlerVars, keyVars, peerVars>>

\* for result := range results { allResults = append(allResults, result) }
Collect ==
    /\ ~collDone
    /\ results # <<>>
    /\ allResults' = Append(allResults, Head(results))
    /\ results' = Tail(results)
    /\ UNCHANGED <<totalCount, pageSize, numWorkers, cancelled, jobs, jobsClosed,
                   resultsClosed, skip, subPC, wPC, wJob, wRes,
                   collDone, mPC, retItems, retErr, retSkip, fetchCount, fetchFailed>>
    /\ UNCHANGED inFlight
    /\ UNCHANGED <<syncVars, handlerVars, keyVars, peerVars>>

\* range over a closed, drained results channel ends: resultWg.Done()
CollectorExit ==
    /\ ~collDone
    /\ results = <<>>
    /\ resultsClosed
    /\ collDone' = TRUE
    /\ UNCHANGED <<totalCount, pageSize, numWorkers, cancelled, jobs, jobsClosed,
                   results, resultsClosed, skip, subPC, wPC, wJob, wRes,
                   allResults, mPC, retItems, retErr, retSkip, fetchCount, fetchFailed>>
    /\ UNCHANGED inFlight
    /\ UNCHANGED <<syncVars, handlerVars, keyVars, peerVars>>

AllWorkersDone == \A w \in Workers : wPC[w] = "done"

\* mutation of MainCloseResults: results is closed without wg.Wait()
MainCloseResultsEarly ==
    /\ mPC = "wgWait"
    /\ resultsClosed' = TRUE
    /\ mPC' = "resultWait"
    /\ UNCHANGED <<totalCount, pageSize, numWorkers, cancelled, jobs, jobsClosed,
                   results, skip, subPC, wPC, wJob, wRes, allResults,
                   collDone, retItems, retErr, retSkip, fetchCount, fetchFailed>>
    /\ UNCHANGED inFlight
    /\ UNCHANGED <<syncVars, handlerVars, keyVars, peerVars>>

\* wg.Wait(); close(results)
MainCloseResults ==
    /\ mPC = "wgWait"
    /\ AllWorkersDone
    /\ resultsClosed' = TRUE
    /\ mPC' = "resultWait"
    /\ UNCHANGED <<totalCount, pageSize, numWorkers, cancelled, jobs, jobsClosed,
                   results, skip, subPC, wPC, wJob, wRes, allResults,
                   collDone, retItems, retErr, retSkip, fetchCount, fetchFailed>>
    /\ UNCHANGED inFlight
    /\ UNCHANGED <<syncVars, handlerVars, keyVars, peerVars>>

\* for _, result := range allResults { if result.Err != nil { return nil, ... }
\*     allItems = append(allItems, result.Items...) }; return allItems, nil
\* mutation of CombineResults: each page replaces the items gathered so far
RECURSIVE CombineResultsOverwrite(_, _)
CombineResultsOverwrite(rs, acc) ==
    IF rs = <<>> THEN [items |-> acc, err |-> "nil", skip |-> 0]
    ELSE IF Head(rs).Err
         THEN [items |-> <<>>, err |-> "page", skip |-> Head(rs).Skip]
         ELSE CombineResultsOverwrite(Tail(rs), Head(rs).Items)

\* mutation of CombineResults: the error names the lowest failed offset
CombineResultsLowestOffset(rs, acc) ==
    LET failed == {i \in 1..Len(rs) : rs[i].Err}
        RECURSIVE Items(_)
        Items(r) == IF r = <<>> THEN <<>> ELSE Head(r).Items \o Items(Tail(r))
    IN IF failed = {}
         THEN [items |-> acc \o Items(rs), err |-> "nil", skip |-> 0]
         ELSE [items |-> <<>>, err |-> "page",
               skip |-> CHOOSE o \in {rs[i].Skip : i \in failed} :
                          \A i \in failed : o <= rs[i].Skip]

RECURSIVE CombineResults(_, _)
CombineResults(rs, acc) ==
    IF rs = <<>> THEN [items |-> acc, err |-> "nil", skip |-> 0]
    ELSE IF Head(rs).Err
         THEN [items |-> <<>>, err |-> "page", skip |-> Head(rs).Skip]
         ELSE CombineResults(Tail(rs), acc \o Head(rs).Items)

\* resultWg.Wait(); inspect allResults; return
MainInspect ==
    /\ mPC = "resultWait"
    /\ collDone
    /\ LET r == CombineResults(allResults, <<>>) IN
         /\ retItems' = r.items
         /\ retErr' = r.err
         /\ retSkip' = r.skip
    /\ mPC' = "returned"
    /\ UNCHANGED <<totalCount, pageSize, numWorkers, cancelled, jobs, jobsClosed,
                   results, resultsClosed, skip, subPC, wPC, wJob, wRes,
                   allResults, collDone, fetchCount, fetchFailed>>
    /\ UNCHANGED inFlight
    /\ UNCHANGED <<syncVars, handlerVars, keyVars, peerVars>>

\* the deadline of context.WithTimeout expires or the request is cancelled
Cancel ==
    /\ ~cancelled
    /\ cancelled' = TRUE
    /\ UNCHANGED <<totalCount, pageSize, numWorkers, jobs, jobsClosed,
                   results, resultsClosed, skip, subPC, wPC, wJob, wRes,
                   allResults, collDone, mPC, retItems, retErr, retSkip, fetchCount, fetchFailed>>
    /\ UNCHANGED inFlight
    /\ UNCHANGED <<syncVars, handlerVars, keyVars, peerVars>>

\* no second pass is running
PeerIdle ==
    /\ qPC = "idle"
    /\ qExternalItems = <<>>
    /\ qDbProducts = <<>>
    /\ qItemsToCreate = <<>>
    /\ qItemsToUpdate = <<>>
    /\ qCreateG = "none"
    /\ qUpdateG = "none"

\* no request is being handled
HandlerIdle ==
    /\ hPC = "idle"
    /\ cronSecret = <<>>
    /\ authHeader = <<>>
    /\ sessionID = "none"
    /\ itemCount = 0
    /\ status = 0
    /\ respMsg = "none"
    /\ respBody = <<>>
    /\ loginCalls = 0
    /\ countCalls = 0
    /\ logoutCalls = <<>>
    /\ logoutErr = "none"
    /\ loginErr = "none"
    /\ countErr = "none"

\* no title is being normalized
KeysIdle ==
    /\ kPC = "idle"
    /\ kTitle = <<>>
    /\ kHandle = <<>>
    /\ kKey = <<>>
    /\ kOther = <<>>
    /\ kOtherKey = <<>>

SyncIdle ==
    /\ store = {}
    /\ externalItems = <<>>
    /\ sPC = "idle"
    /\ run = 0
    /\ rerun = FALSE
    /\ dbProducts = <<>>
    /\ dbProductMap = <<>>
    /\ itemsToCreate = <<>>
    /\ itemsToUpdate = <<>>
    /\ result = [Created |-> 0, Updated |-> 0, Unchanged |-> 0, Errors |-> <<>>]
    /\ syncErr = "none"
    /\ createG = "none"
    /\ updateG = "none"
    /\ errChan = <<>>
    /\ createCalls = <<>>
    /\ updateCalls = <<>>
    /\ syncRet = "none"
    /\ storeReadOnly = FALSE
    /\ readCalls = 0

\* state at the call of fetchAllItemsConcurrently, goroutines started
InitFetch ==
    /\ \E tp \in FetchInputs : totalCount = tp[1] /\ pageSize = tp[2]
    /\ numWorkers \in 0..MaxWorkers
    /\ cancelled \in BOOLEAN
    /\ jobs = <<>>
    /\ jobsClosed = FALSE
    /\ results = <<>>
    /\ resultsClosed = FALSE
    /\ skip = 0
    /\ subPC = "loop"
    /\ wPC = [w \in 0..(numWorkers - 1) |-> "range"]
    /\ wJob = [w \in 0..(numWorkers - 1) |-> NoJob]
    /\ wRes = [w \in 0..(numWorkers - 1) |-> NoResult]
    /\ allResults = <<>>
    /\ collDone = FALSE
    /\ mPC = "wgWait"
    /\ retItems = <<>>
    /\ retErr = "none"
    /\ retSkip = 0
    /\ fetchCount = <<>>
    /\ fetchFailed = {}
    /\ inFlight = [w \in 0..(numWorkers - 1) |-> 0]
    /\ SyncIdle
    /\ HandlerIdle
    /\ KeysIdle
    /\ PeerIdle

\* the steps of the goroutines of one call
FetchSteps ==
    \/ SubmitJob
    \/ SubmitCancelled
    \/ SubmitClose
    \/ \E w \in Workers : WorkerRecv(w)
    \/ \E w \in Workers : WorkerExit(w)
    \/ \E w \in Workers : WorkerCheck(w)
    \/ \E w \in Workers : \E err \in BOOLEAN : WorkerFetchReturn(w, err)
    \/ \E w \in Workers : WorkerSend(w)
    \/ \E w \in Workers : WorkerSendCancelled(w)
    \/ Collect
    \/ CollectorExit
    \/ MainCloseResults
    \/ MainInspect

NextFetch ==
    \/ FetchSteps
    \/ Cancel

SpecFetch == InitFetch /\ [][NextFetch]_vars

\* every goroutine that can take a step eventually takes one, and every call
\* of fetchItemsPage returns; the context may or may not become done
FetchFairness ==
    /\ WF_vars(SubmitJob \/ SubmitCancelled \/ SubmitClose)
    /\ \A w \in 0..(MaxWorkers - 1) :
         WF_vars(w \in Workers /\ (WorkerRecv(w) \/ WorkerExit(w) \/ WorkerCheck(w)
                                     \/ (\E err \in BOOLEAN : WorkerFetchReturn(w, err))
                                     \/ WorkerSend(w) \/ WorkerSendCancelled(w)))
    /\ WF_vars(Collect \/ CollectorExit)
    /\ WF_vars(MainCloseResults \/ MainInspect)

\* calls with one record per page and fewer pages than MaxTotal
InitFetchLive ==
    /\ InitFetch
    /\ pageSize = 1
    /\ totalCount < MaxTotal

SpecFetchLive == InitFetchLive /\ [][NextFetch]_vars /\ FetchFairness

\* ------------------------------------------------------- fetcher properties

\* the offsets 0, pageSize, 2*pageSize, ... below totalCount
ExpectedOffsets(total, ps) == {o \in 0..(total - 1) : o % ps = 0}

CeilDiv(a, b) == (a + b - 1) \div b

Returned == mPC = "returned"

\* C1: when the cancellation signal fired while pages were still unfetched,
\* the fetch returns a cancellation failure and no records.
C1_CancelledFetchFails ==
    (/\ Returned
     /\ numWorkers >= 1
     /\ cancelled
     /\ \E o \in ExpectedOffsets(totalCount, pageSize) : o \notin DOMAIN fetchCount)
      => (retErr = "cancelled" /\ retItems = <<>>)

\* C2: when any page request of the call failed, the fetch returns an
\* error naming a failing offset, and no records.
C2_FetchAtomicity ==
    (Returned /\ fetchFailed # {})
      => (retErr = "page" /\ retSkip \in fetchFailed /\ retItems = <<>>)

\* C3: without cancellation exactly ceil(totalCount / pageSize) page requests
\* are issued, one per offset 0, pageSize, 2*pageSize, ... below totalCount;
\* with or without cancellation no offset is requested twice.
C3_FetchTotality ==
    numWorkers >= 1 =>
      /\ \A o \in DOMAIN fetchCount :
           fetchCount[o] = 1 /\ o \in ExpectedOffsets(totalCount, pageSize)
      /\ (Returned /\ ~cancelled) =>
           /\ DOMAIN fetchCount = ExpectedOffsets(totalCount, pageSize)
           /\ Cardinality(DOMAIN fetchCount) = CeilDiv(totalCount, pageSize)
           /\ (totalCount = 47 /\ pageSize = 20) => DOMAIN fetchCount = {0, 20, 40}

C3_Witness ==
    /\ Returned /\ ~cancelled
    /\ totalCount = 47 /\ pageSize = 20 /\ numWorkers = 2
    /\ DOMAIN fetchCount = {0, 20, 40}

\* C4: a fetch that returns a nil error without cancellation returns every
\* record of every page exactly once, whatever order the pages completed in.
C4_SuccessConcatenatesAllPages ==
    (Returned /\ retErr = "nil" /\ numWorkers >= 1 /\ ~cancelled) =>
      /\ Len(retItems) = totalCount
      /\ Range(retItems) = 0..(totalCount - 1)
      /\ Len(allResults) = CeilDiv(totalCount, pageSize)
      /\ \A i \in 1..Len(allResults) :
           \E k \in 0..(Len(retItems) - Len(allResults[i].Items)) :
             SubSeq(retItems, k + 1, k + Len(allResults[i].Items)) = allResults[i].Items

\* pages completed out of offset order and were all returned
C4_Witness ==
    /\ Returned /\ retErr = "nil" /\ ~cancelled
    /\ numWorkers = 2
    /\ Len(allResults) >= 3
    /\ allResults[1].Skip # 0
    /\ Len(retItems) = totalCount

\* =========================================================================
\*  Key normalizer (strings are sequences of one-character strings)
\* =========================================================================

LowerLetters ==
    {"a", "b", "c", "d", "e", "f", "g", "h", "i", "j", "k", "l", "m",
     "n", "o", "p", "q", "r", "s", "t", "u", "v", "w", "x", "y", "z"}
UpperLetters ==
    {"A", "B", "C", "D", "E", "F", "G", "H", "I", "J", "K", "L", "M",
     "N", "O", "P", "Q", "R", "S", "T", "U", "V", "W", "X", "Y", "Z"}
Digits == {"0", "1", "2", "3", "4", "5", "6", "7", "8", "9"}

\* the lower-case letter of an ASCII upper-case letter
LowerOfUpper(c) ==
    CASE c = "A" -> "a" [] c = "B" -> "b" [] c = "C" -> "c" [] c = "D" -> "d"
      [] c = "E" -> "e" [] c = "F" -> "f" [] c = "G" -> "g" [] c = "H" -> "h"
      [] c = "I" -> "i" [] c = "J" -> "j" [] c = "K" -> "k" [] c = "L" -> "l"
      [] c = "M" -> "m" [] c = "N" -> "n" [] c = "O" -> "o" [] c = "P" -> "p"
      [] c = "Q" -> "q" [] c = "R" -> "r" [] c = "S" -> "s" [] c = "T" -> "t"
      [] c = "U" -> "u" [] c = "V" -> "v" [] c = "W" -> "w" [] c = "X" -> "x"
      [] c = "Y" -> "y" [] c = "Z" -> "z"

\* unicode.ToLower on one rune: ASCII upper-case letters, the accented
\* capital E, the Kelvin sign (written "U+212A"), whose lower case is the
\* ASCII k, and the Greek capital sigma (written "U+03A3"), whose lower case
\* is the small sigma "U+03C3"; every lower-case rune, the final small sigma
\* "U+03C2" among them, is its own lower case
LowerRune(c) ==
    CASE c \in UpperLetters -> LowerOfUpper(c)
      [] c = "É" -> "é"
      [] c = "U+212A" -> "k"
      [] c = "U+03A3" -> "U+03C3"
      [] OTHER -> c

\* unicode.IsSpace
IsSpace(c) == c \in {" ", "\t"}

\* strings.ToLower
ToLower(s) == [i \in 1..Len(s) |-> LowerRune(s[i])]

\* strings.ReplaceAll for one-rune old and new
ReplaceAll(s, old, new) == [i \in 1..Len(s) |-> IF s[i] = old THEN new ELSE s[i]]

RECURSIVE TrimLeft(_)
TrimLeft(s) ==
    IF s # <<>> /\ IsSpace(Head(s)) THEN TrimLeft(Tail(s)) ELSE s

RECURSIVE TrimRight(_)
TrimRight(s) ==
    IF s # <<>> /\ IsSpace(s[Len(s)]) THEN TrimRight(SubSeq(s, 1, Len(s) - 1)) ELSE s

\* mutation of TrimSpace: one whitespace rune is removed at each end
TrimSpaceOnce(s) ==
    LET l == IF s # <<>> /\ IsSpace(Head(s)) THEN Tail(s) ELSE s
    IN IF l # <<>> /\ IsSpace(l[Len(l)]) THEN SubSeq(l, 1, Len(l) - 1) ELSE l

\* strings.TrimSpace
TrimSpace(s) == TrimRight(TrimLeft(s))

\* (r >= 'a' && r <= 'z') || (r >= '0' && r <= '9') || r == '-'
\* mutation of IsHandleRune: every letter is kept, accented ones included
IsHandleRuneAnyLetter(c) ==
    c \in LowerLetters \cup Digits \cup {"-", "é"}

IsHandleRune(c) == c \in LowerLetters \cup Digits \cup {"-"}

\* a run of hyphens replaced by one hyphen
RECURSIVE CollapseHyphens(_)
CollapseHyphens(s) ==
    IF Len(s) < 2 THEN s
    ELSE IF s[1] = "-" /\ s[2] = "-" THEN CollapseHyphens(Tail(s))
    ELSE <<s[1]>> \o CollapseHyphens(Tail(s))

\* mutation of generateHandle: with a pass that collapses repeated hyphens
generateHandleCollapsing(title) ==
    CollapseHyphens(
      SelectSeq(ReplaceAll(ReplaceAll(ToLower(title), " ", "-"), "_", "-"), IsHandleRune))

generateHandle(title) ==
    SelectSeq(ReplaceAll(ReplaceAll(ToLower(title), " ", "-"), "_", "-"), IsHandleRune)

normalizeTitle(title) == ToLower(TrimSpace(title))

\* =========================================================================
\*  Sync engine
\* =========================================================================

\* titles of remote records and of stored products
SyncTitles == {<<"a">>, <<"A">>, <<" ", "a">>, <<"b">>, <<"a", "_", "b">>, <<" ">>}
StoreTitles == {<<"a">>, <<"A">>, <<"b">>}
StaleHandle == <<"o">>

\* a remote record, seen through item["ItemName"].(string): the assertion's
\* ok flag and value (the zero value "" when the field is absent or no string)
ExternalItems ==
    {[isString |-> TRUE, ItemName |-> t] : t \in SyncTitles \cup {<<>>}}
      \cup {[isString |-> FALSE, ItemName |-> <<>>]}

Product(id, title, handle) == [ID |-> id, Title |-> title, Handle |-> handle]

\* the tables the pass can meet: ids are the primary key, handle is unique
Stores ==
    {st \in UNION {
        {{Product(i, f[i][1], IF f[i][2] THEN generateHandle(f[i][1]) ELSE StaleHandle)
            : i \in 1..n} : f \in [1..n -> StoreTitles \X BOOLEAN]}
        : n \in 0..MaxStore} :
      \A p \in st, q \in st : p.Handle = q.Handle => p = q}

EmptyResult == [Created |-> 0, Updated |-> 0, Unchanged |-> 0, Errors |-> <<>>]

InvalidItemError == "Invalid or missing ItemName in external item"

\* SELECT id, title, COALESCE(handle, '') FROM products ORDER BY id
RECURSIVE GetAllProducts(_)
GetAllProducts(st) ==
    IF st = {} THEN <<>>
    ELSE LET p == CHOOSE x \in st : \A y \in st : x.ID <= y.ID
         IN <<p>> \o GetAllProducts(st \ {p})

\* mutation of MapPut: a key that is present keeps its value
MapPutKeepsFirst(m, key, value) ==
    [k \in DOMAIN m \cup {key} |-> IF k \in DOMAIN m THEN m[k] ELSE value]

\* dbProductMap[key] = value
MapPut(m, key, value) ==
    [k \in DOMAIN m \cup {key} |-> IF k = key THEN value ELSE m[k]]

\* for i := range dbProducts { dbProductMap[normalizeTitle(Title)] = &dbProducts[i] }
RECURSIVE BuildProductMap(_, _)
BuildProductMap(products, m) ==
    IF products = <<>> THEN m
    ELSE BuildProductMap(Tail(products),
                         MapPut(m, normalizeTitle(Head(products).Title), Head(products)))

\* mutation of ClassifyItem: the lookup key is lowercased but not trimmed
ClassifyItemUntrimmedKey(item, m, acc) ==
    IF ~item.isString \/ item.ItemName = <<>>
      THEN [acc EXCEPT !.errors = Append(@, InvalidItemError)]
      ELSE LET itemName == item.ItemName
               handle == generateHandle(itemName)
               normalizedTitle == ToLower(itemName)
           IN IF normalizedTitle \in DOMAIN m
                THEN LET existingProduct == m[normalizedTitle] IN
                     IF existingProduct.Title # itemName \/ existingProduct.Handle # handle
                       THEN [acc EXCEPT !.update =
                               Append(@, [ID |-> existingProduct.ID,
                                          Title |-> itemName, Handle |-> handle])]
                       ELSE [acc EXCEPT !.unchanged = @ + 1]
                ELSE [acc EXCEPT !.create =
                        Append(@, [Title |-> itemName, Handle |-> handle])]

\* mutation of ClassifyItem: only the handle decides whether an update is needed
ClassifyItemHandleOnly(item, m, acc) ==
    IF ~item.isString \/ item.ItemName = <<>>
      THEN [acc EXCEPT !.errors = Append(@, InvalidItemError)]
      ELSE LET itemName == item.ItemName
               handle == generateHandle(itemName)
               normalizedTitle == normalizeTitle(itemName)
           IN IF normalizedTitle \in DOMAIN m
                THEN LET existingProduct == m[normalizedTitle] IN
                     IF existingProduct.Handle # handle
                       THEN [acc EXCEPT !.update =
                               Append(@, [ID |-> existingProduct.ID,
                                          Title |-> itemName, Handle |-> handle])]
                       ELSE [acc EXCEPT !.unchanged = @ + 1]
                ELSE [acc EXCEPT !.create =
                        Append(@, [Title |-> itemName, Handle |-> handle])]

\* mutation of ClassifyItem: an update entry keeps the stored handle
ClassifyItemKeepsHandle(item, m, acc) ==
    IF ~item.isString \/ item.ItemName = <<>>
      THEN [acc EXCEPT !.errors = Append(@, InvalidItemError)]
      ELSE LET itemName == item.ItemName
               handle == generateHandle(itemName)
               normalizedTitle == normalizeTitle(itemName)
           IN IF normalizedTitle \in DOMAIN m
                THEN LET existingProduct == m[normalizedTitle] IN
                     IF existingProduct.Title # itemName
                          \/ existingProduct.Handle # handle
                       THEN [acc EXCEPT !.update =
                               Append(@, [ID |-> existingProduct.ID,
                                          Title |-> itemName,
                                          Handle |-> existingProduct.Handle])]
                       ELSE [acc EXCEPT !.unchanged = @ + 1]
                ELSE [acc EXCEPT !.create =
                        Append(@, [Title |-> itemName, Handle |-> handle])]

\* mutation of ClassifyItem: a found product is updated without comparing it
ClassifyItemAlwaysUpdate(item, m, acc) ==
    IF ~item.isString \/ item.ItemName = <<>>
      THEN [acc EXCEPT !.errors = Append(@, InvalidItemError)]
      ELSE LET itemName == item.ItemName
               handle == generateHandle(itemName)
               normalizedTitle == normalizeTitle(itemName)
           IN IF normalizedTitle \in DOMAIN m
                THEN LET existingProduct == m[normalizedTitle] IN
                     [acc EXCEPT !.update =
                        Append(@, [ID |-> existingProduct.ID,
                                   Title |-> itemName, Handle |-> handle])]
                ELSE [acc EXCEPT !.create =
                        Append(@, [Title |-> itemName, Handle |-> handle])]

\* mutation of ClassifyItem: a record whose key is already in the create
\* batch is not added a second time
ClassifyItemSkipsSeenKey(item, m, acc) ==
    IF ~item.isString \/ item.ItemName = <<>>
      THEN [acc EXCEPT !.errors = Append(@, InvalidItemError)]
      ELSE LET itemName == item.ItemName
               handle == generateHandle(itemName)
               normalizedTitle == normalizeTitle(itemName)
           IN IF normalizedTitle \in DOMAIN m
                THEN LET existingProduct == m[normalizedTitle] IN
                     IF existingProduct.Title # itemName \/ existingProduct.Handle # handle
                       THEN [acc EXCEPT !.update =
                               Append(@, [ID |-> existingProduct.ID,
                                          Title |-> itemName, Handle |-> handle])]
                       ELSE [acc EXCEPT !.unchanged = @ + 1]
                ELSE IF \E k \in 1..Len(acc.create) :
                          normalizeTitle(acc.create[k].Title) = normalizedTitle
                       THEN acc
                       ELSE [acc EXCEPT !.create =
                               Append(@, [Title |-> itemName, Handle |-> handle])]

\* the body of the loop over externalItems, on the accumulated
\* (itemsToCreate, itemsToUpdate, result.Unchanged, result.Errors)
ClassifyItem(item, m, acc) ==
    IF ~item.isString \/ item.ItemName = <<>>
      THEN [acc EXCEPT !.errors = Append(@, InvalidItemError)]
      ELSE LET itemName == item.ItemName
               handle == generateHandle(itemName)
               normalizedTitle == normalizeTitle(itemName)
           IN IF normalizedTitle \in DOMAIN m
                THEN LET existingProduct == m[normalizedTitle] IN
                     IF existingProduct.Title # itemName \/ existingProduct.Handle # handle
                       THEN [acc EXCEPT !.update =
                               Append(@, [ID |-> existingProduct.ID,
                                          Title |-> itemName, Handle |-> handle])]
                       ELSE [acc EXCEPT !.unchanged = @ + 1]
                ELSE [acc EXCEPT !.create =
                        Append(@, [Title |-> itemName, Handle |-> handle])]

\* mutation of ClassifyAll: the loop ends at the first invalid record
RECURSIVE ClassifyAllAbortOnInvalid(_, _, _)
ClassifyAllAbortOnInvalid(items, m, acc) ==
    IF items = <<>> THEN acc
    ELSE IF ~Head(items).isString \/ Head(items).ItemName = <<>>
           THEN ClassifyItem(Head(items), m, acc)
           ELSE ClassifyAllAbortOnInvalid(Tail(items), m, ClassifyItem(Head(items), m, acc))

RECURSIVE ClassifyAll(_, _, _)
ClassifyAll(items, m, acc) ==
    IF items = <<>> THEN acc
    ELSE ClassifyAll(Tail(items), m, ClassifyItem(Head(items), m, acc))

EmptyAcc == [create |-> <<>>, update |-> <<>>, unchanged |-> 0, errors |-> <<>>]

\* CompareAndSync is called with the fetched items; result := &SyncResult{}
StartPass(items) ==
    /\ sPC \in {"idle", "done", "failed"}
    /\ run < MaxRuns
    /\ run' = run + 1
    /\ rerun' = (sPC = "done" /\ items = externalItems)
    /\ externalItems' = items
    /\ sPC' = "getAll"
    /\ dbProducts' = <<>>
    /\ dbProductMap' = <<>>
    /\ itemsToCreate' = <<>>
    /\ itemsToUpdate' = <<>>
    /\ result' = EmptyResult
    /\ syncErr' = "none"
    /\ createG' = "none"
    /\ updateG' = "none"
    /\ errChan' = <<>>
    /\ createCalls' = <<>>
    /\ updateCalls' = <<>>
    /\ syncRet' = "none"
    /\ UNCHANGED <<store, storeReadOnly>>
    /\ readCalls' = 0
    /\ UNCHANGED <<fetchVars, handlerVars, keyVars, peerVars>>

\* mutation of ReadProducts: the failure path returns the result with the error
ReadProductsReturnsResult(ok) ==
    /\ sPC = "getAll"
    /\ cancelled => ~ok     \* QueryContext fails once ctx is done
    /\ IF ok
         THEN /\ dbProducts' = GetAllProducts(store)
              /\ sPC' = "classify"
              /\ UNCHANGED <<syncErr, syncRet>>
         ELSE /\ syncErr' = "getAll"
              /\ syncRet' = "result"
              /\ sPC' = "failed"
              /\ UNCHANGED dbProducts
    /\ UNCHANGED <<store, externalItems, run, rerun, dbProductMap, itemsToCreate,
                   itemsToUpdate, result, createG, updateG, errChan,
                   createCalls, updateCalls, storeReadOnly>>
    /\ readCalls' = readCalls + 1
    /\ UNCHANGED <<fetchVars, handlerVars, keyVars, peerVars>>

\* dbProducts, err := s.repo.GetAllProducts(ctx); if err != nil { return nil, ... }
ReadProducts(ok) ==
    /\ sPC = "getAll"
    /\ cancelled => ~ok     \* QueryContext fails once ctx is done
    /\ IF ok
         THEN /\ dbProducts' = GetAllProducts(store)
              /\ sPC' = "classify"
              /\ UNCHANGED <<syncErr, syncRet>>
         ELSE /\ syncErr' = "getAll"
              /\ syncRet' = "nil"
              /\ sPC' = "failed"
              /\ UNCHANGED dbProducts
    /\ UNCHANGED <<store, externalItems, run, rerun, dbProductMap, itemsToCreate,
                   itemsToUpdate, result, createG, updateG, errChan,
                   createCalls, updateCalls, storeReadOnly>>
    /\ readCalls' = readCalls + 1
    /\ UNCHANGED <<fetchVars, handlerVars, keyVars, peerVars>>

\* mutation of Classify: every remote record is looked up in the store
\* (GetProductByTitle) instead of in the snapshot
ClassifyReadsPerItem ==
    /\ sPC = "classify"
    /\ LET m == BuildProductMap(dbProducts, <<>>)
           acc == ClassifyAll(externalItems, m, EmptyAcc)
       IN /\ dbProductMap' = m
          /\ itemsToCreate' = acc.create
          /\ itemsToUpdate' = acc.update
          /\ result' = [result EXCEPT !.Unchanged = acc.unchanged,
                                      !.Errors = acc.errors]
    /\ sPC' = "dispatch"
    /\ readCalls' = readCalls + Len(externalItems)
    /\ UNCHANGED <<store, externalItems, run, rerun, dbProducts, syncErr,
                   createG, updateG, errChan, createCalls, updateCalls,
                   syncRet, storeReadOnly>>
    /\ UNCHANGED <<fetchVars, handlerVars, keyVars, peerVars>>

\* build dbProductMap, then the loop over externalItems
Classify ==
    /\ sPC = "classify"
    /\ LET m == BuildProductMap(dbProducts, <<>>)
           acc == ClassifyAll(externalItems, m, EmptyAcc)
       IN /\ dbProductMap' = m
          /\ itemsToCreate' = acc.create
          /\ itemsToUpdate' = acc.update
          /\ result' = [result EXCEPT !.Unchanged = acc.unchanged,
                                      !.Errors = acc.errors]
    /\ sPC' = "dispatch"
    /\ UNCHANGED <<store, externalItems, run, rerun, dbProducts, syncErr,
                   createG, updateG, errChan, createCalls, updateCalls,
                   syncRet, storeReadOnly>>
    /\ UNCHANGED readCalls
    /\ UNCHANGED <<fetchVars, handlerVars, keyVars, peerVars>>

\* if len(itemsToCreate) > 0 { wg.Add(1); go ... }
\* if len(itemsToUpdate) > 0 { wg.Add(1); go ... }
Dispatch ==
    /\ sPC = "dispatch"
    /\ createG' = IF Len(itemsToCreate) > 0 THEN "running" ELSE "none"
    /\ updateG' = IF Len(itemsToUpdate) > 0 THEN "running" ELSE "none"
    /\ sPC' = "wait"
    /\ UNCHANGED <<store, externalItems, run, rerun, dbProducts, dbProductMap,
                   itemsToCreate, itemsToUpdate, result, syncErr, errChan,
                   createCalls, updateCalls, syncRet, storeReadOnly>>
    /\ UNCHANGED readCalls
    /\ UNCHANGED <<fetchVars, handlerVars, keyVars, peerVars>>

\* mutation of CreateOutcome: entries with a handle seen before in the batch
\* are not counted
CreateOutcomeDistinctHandles(res, batch) ==
    [res EXCEPT !.Created = Cardinality({batch[i].Handle : i \in 1..Len(batch)})]

\* what the create goroutine leaves in result (the call of
\* s.repo.CreateProductsBatch is commented out)
CreateOutcome(res, batch) == [res EXCEPT !.Created = Len(batch)]

\* what the update goroutine leaves in result (the call of
\* s.repo.UpdateProductsBatch and result.Updated = len(itemsToUpdate) are
\* commented out: only the log line runs)
UpdateOutcome(res, batch) == res

CreateGoroutine ==
    /\ createG = "running"
    /\ result' = CreateOutcome(result, itemsToCreate)
    /\ createG' = "done"
    /\ UNCHANGED <<store, externalItems, sPC, run, rerun, dbProducts, dbProductMap,
                   itemsToCreate, itemsToUpdate, syncErr, updateG, errChan,
                   createCalls, updateCalls, syncRet, storeReadOnly>>
    /\ UNCHANGED readCalls
    /\ UNCHANGED <<fetchVars, handlerVars, keyVars, peerVars>>

UpdateGoroutine ==
    /\ updateG = "running"
    /\ result' = UpdateOutcome(result, itemsToUpdate)
    /\ updateG' = "done"
    /\ UNCHANGED <<store, externalItems, sPC, run, rerun, dbProducts, dbProductMap,
                   itemsToCreate, itemsToUpdate, syncErr, createG, errChan,
                   createCalls, updateCalls, syncRet, storeReadOnly>>
    /\ UNCHANGED readCalls
    /\ UNCHANGED <<fetchVars, handlerVars, keyVars, peerVars>>

\* wg.Wait(); close(errChan); for err := range errChan { append to Errors }
\* return result, nil
WaitAndReturn ==
    /\ sPC = "wait"
    /\ createG # "running"
    /\ updateG # "running"
    /\ result' = [result EXCEPT !.Errors = @ \o errChan]
    /\ errChan' = <<>>
    /\ syncErr' = "nil"
    /\ syncRet' = "result"
    /\ sPC' = "done"
    /\ UNCHANGED <<store, externalItems, run, rerun, dbProducts, dbProductMap,
                   itemsToCreate, itemsToUpdate, createG, updateG,
                   createCalls, updateCalls, storeReadOnly>>
    /\ UNCHANGED readCalls
    /\ UNCHANGED <<fetchVars, handlerVars, keyVars, peerVars>>

FetchIdle ==
    /\ totalCount = 0
    /\ pageSize = HandlerPageSize
    /\ numWorkers = HandlerNumWorkers
    /\ cancelled = FALSE
    /\ jobs = <<>>
    /\ jobsClosed = FALSE
    /\ results = <<>>
    /\ resultsClosed = FALSE
    /\ skip = 0
    /\ subPC = "idle"
    /\ wPC = <<>>
    /\ wJob = <<>>
    /\ wRes = <<>>
    /\ allResults = <<>>
    /\ collDone = FALSE
    /\ mPC = "idle"
    /\ retItems = <<>>
    /\ retErr = "none"
    /\ retSkip = 0
    /\ fetchCount = <<>>
    /\ fetchFailed = {}
    /\ inFlight = <<>>

InitSync ==
    /\ FetchIdle
    /\ store \in Stores
    /\ externalItems = <<>>
    /\ sPC = "idle"
    /\ run = 0
    /\ rerun = FALSE
    /\ dbProducts = <<>>
    /\ dbProductMap = <<>>
    /\ itemsToCreate = <<>>
    /\ itemsToUpdate = <<>>
    /\ result = EmptyResult
    /\ syncErr = "none"
    /\ createG = "none"
    /\ updateG = "none"
    /\ errChan = <<>>
    /\ createCalls = <<>>
    /\ updateCalls = <<>>
    /\ syncRet = "none"
    /\ storeReadOnly \in BOOLEAN
    /\ readCalls = 0
    /\ HandlerIdle
    /\ KeysIdle
    /\ PeerIdle

NextSync ==
    \/ \E items \in SeqsUpTo(ExternalItems, MaxRemote) : StartPass(items)
    \/ \E ok \in BOOLEAN : ReadProducts(ok)
    \/ Classify
    \/ Dispatch
    \/ CreateGoroutine
    \/ UpdateGoroutine
    \/ WaitAndReturn

SpecSync == InitSync /\ [][NextSync]_vars

\* --------------------------------------------------- sync engine properties

\* itemName, ok := item["ItemName"].(string); ok && itemName != ""
IsValidItem(item) == item.isString /\ item.ItemName # <<>>

ValidItems(items) == SelectSeq(items, IsValidItem)

NumValid(items) == Len(ValidItems(items))

PassDone == sPC = "done"

Classified == sPC \in {"dispatch", "wait", "done"}

\* the comparison keys of the snapshot read at the start of the pass
SnapshotKeys == {normalizeTitle(dbProducts[i].Title) : i \in 1..Len(dbProducts)}

\* the snapshot record a comparison key is matched with
MatchedProduct(key) ==
    dbProducts[CHOOSE i \in 1..Len(dbProducts) :
                 /\ normalizeTitle(dbProducts[i].Title) = key
                 /\ \A j \in (i + 1)..Len(dbProducts) :
                      normalizeTitle(dbProducts[j].Title) # key]

\* C5: every valid remote record is counted in exactly one of created,
\* updated, unchanged, and every invalid one is a validation error.
C5_PartitionCompleteness ==
    PassDone =>
      /\ result.Created + result.Updated + result.Unchanged = NumValid(externalItems)
      /\ result.Created + result.Updated + result.Unchanged + Len(result.Errors)
           = Len(externalItems)

\* C6: a second pass in a row on the same remote records creates and
\* updates nothing.
C6_Idempotence ==
    (PassDone /\ rerun) => (result.Created = 0 /\ result.Updated = 0)

\* C7: after a dispatched batch write, updatedCount is the size of the update
\* batch and createdCount is the size of the create batch.
C7_CountsAreBatchSizes ==
    PassDone =>
      /\ updateG = "done" => result.Updated = Len(itemsToUpdate)
      /\ createG = "done" => result.Created = Len(itemsToCreate)

\* C8: CreateProductsBatch is invoked once with the whole create batch iff
\* that batch is non-empty, UpdateProductsBatch likewise, and the pass returns
\* only after both have finished.
C8_BatchesDispatchedOnce ==
    PassDone =>
      /\ createCalls = IF itemsToCreate # <<>> THEN <<itemsToCreate>> ELSE <<>>
      /\ updateCalls = IF itemsToUpdate # <<>> THEN <<itemsToUpdate>> ELSE <<>>
      /\ createG # "running" /\ updateG # "running"

\* C9: the create batch holds {title, generateHandle(title)} of exactly the
\* valid remote records whose comparison key is the key of no snapshot
\* record, in remote order; on an empty store every valid record is created.
C9_CreateIffKeyAbsent ==
    Classified =>
      LET IsNew(item) == normalizeTitle(item.ItemName) \notin SnapshotKeys
          new == SelectSeq(ValidItems(externalItems), IsNew)
      IN /\ itemsToCreate =
              [i \in 1..Len(new) |->
                 [Title |-> new[i].ItemName, Handle |-> generateHandle(new[i].ItemName)]]
         /\ (PassDone /\ dbProducts = <<>>) =>
              /\ result.Created = NumValid(externalItems)
              /\ result.Updated = 0
              /\ result.Unchanged = 0

\* a pass that created one record and matched another one whose stored
\* title differs from the remote title only by surrounding whitespace
C9_Witness ==
    /\ PassDone
    /\ Len(itemsToCreate) = 1
    /\ result.Created = 1
    /\ \E i \in 1..Len(externalItems) : \E p \in store :
         /\ IsValidItem(externalItems[i])
         /\ externalItems[i].ItemName # p.Title
         /\ TrimSpace(externalItems[i].ItemName) = p.Title

\* C10: a valid remote record whose key matches a snapshot record is counted
\* unchanged iff the stored title equals the remote title and the stored
\* handle equals generateHandle(title); otherwise it is in the update batch as
\* {id of the matched record, title, generateHandle(title)}; it is never in
\* the create batch.
C10_UnchangedOrUpdate ==
    Classified =>
      LET IsKnown(item) == normalizeTitle(item.ItemName) \in SnapshotKeys
          Same(item) ==
            LET p == MatchedProduct(normalizeTitle(item.ItemName))
            IN p.Title = item.ItemName /\ p.Handle = generateHandle(item.ItemName)
          Changed(item) == ~Same(item)
          known == SelectSeq(ValidItems(externalItems), IsKnown)
          changed == SelectSeq(known, Changed)
      IN /\ result.Unchanged = Len(SelectSeq(known, Same))
         /\ itemsToUpdate =
              [i \in 1..Len(changed) |->
                 [ID |-> MatchedProduct(normalizeTitle(changed[i].ItemName)).ID,
                  Title |-> changed[i].ItemName,
                  Handle |-> generateHandle(changed[i].ItemName)]]
         /\ \A i \in 1..Len(itemsToCreate) :
              normalizeTitle(itemsToCreate[i].Title) \notin SnapshotKeys

\* a pass with one unchanged record and one update whose title differs from
\* the stored title only in letter case
C10_Witness ==
    /\ PassDone
    /\ result.Unchanged = 1
    /\ Len(itemsToUpdate) = 1
    /\ \E p \in store :
         /\ p.ID = itemsToUpdate[1].ID
         /\ p.Title # itemsToUpdate[1].Title
         /\ ToLower(p.Title) = ToLower(itemsToUpdate[1].Title)
         /\ p.Handle = itemsToUpdate[1].Handle

\* C11: a remote record whose ItemName is absent, no string or the empty
\* string (a whitespace-only name is valid) adds one validation error, is in
\* no batch and in no count, and the other records are still classified.
C11_InvalidRecordSkipped ==
    Classified =>
      LET invalid == {i \in 1..Len(externalItems) :
                        ~externalItems[i].isString \/ Len(externalItems[i].ItemName) = 0}
          batched == Len(itemsToCreate) + Len(itemsToUpdate) + result.Unchanged
      IN /\ result.Errors = [i \in 1..Cardinality(invalid) |-> InvalidItemError]
         /\ batched = Len(externalItems) - Cardinality(invalid)
         /\ \A i \in 1..Len(itemsToCreate) : itemsToCreate[i].Title # <<>>
         /\ \A i \in 1..Len(itemsToUpdate) : itemsToUpdate[i].Title # <<>>
         /\ \A i \in 1..Len(externalItems) :
              (externalItems[i].isString /\ externalItems[i].ItemName = <<" ">>)
                => \E k \in 1..Len(itemsToCreate) : itemsToCreate[k].Title = <<" ">>

\* an invalid record is followed by a whitespace-only name, which is created
C11_Witness ==
    /\ PassDone
    /\ Len(externalItems) = 2
    /\ ~externalItems[1].isString
    /\ externalItems[2].isString /\ externalItems[2].ItemName = <<" ">>
    /\ Len(result.Errors) = 1
    /\ Len(itemsToCreate) = 1

\* C12: when the initial GetAllProducts fails, CompareAndSync returns an error
\* and a nil result, classifies nothing, dispatches and invokes no batch
\* write, and leaves the store as it was.
C12_ReadFailureIsFatal ==
    /\ [](sPC = "failed" =>
            /\ syncErr = "getAll"
            /\ syncRet = "nil"
            /\ dbProducts = <<>> /\ dbProductMap = <<>>
            /\ itemsToCreate = <<>> /\ itemsToUpdate = <<>>
            /\ result = EmptyResult
            /\ createG = "none" /\ updateG = "none"
            /\ createCalls = <<>> /\ updateCalls = <<>>)
    /\ [][(sPC = "getAll" /\ sPC' = "failed") => store' = store]_vars

\* the read failed on a pass that had valid records to classify and a
\* non-empty table
C12_Witness ==
    /\ sPC = "failed"
    /\ store # {}
    /\ Len(externalItems) = 2
    /\ IsValidItem(externalItems[1])

BatchCreateFailed == "batch create failed"
BatchUpdateFailed == "batch update failed"

\* C13: when a batch write fails (here: the database rejects every write),
\* the pass still returns a nil error, the failure of each dispatched batch is
\* appended to the outcome's errors, and the other batch is still dispatched.
C13_BatchFailureCollected ==
    (PassDone /\ storeReadOnly) =>
      /\ syncErr = "nil" /\ syncRet = "result"
      /\ itemsToCreate # <<>> =>
           (createG = "done" /\ BatchCreateFailed \in Range(result.Errors))
      /\ itemsToUpdate # <<>> =>
           (updateG = "done" /\ BatchUpdateFailed \in Range(result.Errors))

\* =========================================================================
\*  Product repository: the batch writes, and passes whose batches are written
\* =========================================================================

\* the id the products table assigns to the next inserted row
NextID(st) ==
    IF st = {} THEN 1
    ELSE (CHOOSE x \in st : \A y \in st : x.ID >= y.ID).ID + 1

\* mutation of InsertProduct: a plain INSERT without the ON CONFLICT clause
\* on a table without the unique index
InsertProductNoConflictClause(st, e) ==
    st \cup {Product(NextID(st), e.Title, e.Handle)}

\* INSERT INTO products (title, handle) VALUES ($1, $2)
\*   ON CONFLICT (handle) DO NOTHING
InsertProduct(st, e) ==
    IF \E p \in st : p.Handle = e.Handle
      THEN st
      ELSE st \cup {Product(NextID(st), e.Title, e.Handle)}

RECURSIVE InsertAll(_, _)
InsertAll(st, products) ==
    IF products = <<>> THEN st
    ELSE InsertAll(InsertProduct(st, Head(products)), Tail(products))

\* CreateProductsBatch: one transaction; txOk is FALSE when BeginTx, a
\* statement or Commit fails, and the deferred Rollback leaves st as it was
CreateProductsBatch(st, products, txOk) ==
    IF Len(products) = 0 THEN [store |-> st, err |-> FALSE]
    ELSE IF ~txOk THEN [store |-> st, err |-> TRUE]
    ELSE [store |-> InsertAll(st, products), err |-> FALSE]

\* UPDATE products SET title = $1, handle = $2 WHERE id = $3
\* err: the statement violates the unique index on handle
UpdateProduct(st, u) ==
    IF \E p \in st : p.ID # u.ID /\ p.Handle = u.Handle /\ \E q \in st : q.ID = u.ID
      THEN [store |-> st, err |-> TRUE]
      ELSE [store |-> {IF p.ID = u.ID THEN Product(p.ID, u.Title, u.Handle) ELSE p
                         : p \in st},
            err |-> FALSE]

RECURSIVE UpdateAll(_, _)
UpdateAll(st, updates) ==
    IF updates = <<>> THEN [store |-> st, err |-> FALSE]
    ELSE LET r == UpdateProduct(st, Head(updates))
         IN IF r.err THEN r ELSE UpdateAll(r.store, Tail(updates))

\* mutation of UpdateProductsBatch: the statements run outside a transaction,
\* so those before the failing one stay written
UpdateProductsBatchNoRollback(st, updates, txOk) ==
    IF Len(updates) = 0 THEN [store |-> st, err |-> FALSE]
    ELSE IF ~txOk THEN [store |-> st, err |-> TRUE]
    ELSE UpdateAll(st, updates)

\* UpdateProductsBatch: one transaction, rolled back on the first failure
UpdateProductsBatch(st, updates, txOk) ==
    IF Len(updates) = 0 THEN [store |-> st, err |-> FALSE]
    ELSE IF ~txOk THEN [store |-> st, err |-> TRUE]
    ELSE LET r == UpdateAll(st, updates)
         IN IF r.err THEN [store |-> st, err |-> TRUE] ELSE r

\* s.repo.CreateProductsBatch(ctx, itemsToCreate) for the create batch of the
\* finished pass (the call inside CompareAndSync is commented out; here the
\* batch is written as step 4 of the design dispatches it)
ApplyCreateBatch(txOk) ==
    /\ sPC = "done"
    /\ itemsToCreate # <<>>
    /\ createCalls = <<>>
    /\ storeReadOnly => ~txOk
    /\ store' = CreateProductsBatch(store, itemsToCreate, txOk).store
    /\ createCalls' = <<itemsToCreate>>
    /\ UNCHANGED <<externalItems, sPC, run, rerun, dbProducts, dbProductMap,
                   itemsToCreate, itemsToUpdate, result, syncErr, createG, updateG,
                   errChan, updateCalls, syncRet, storeReadOnly>>
    /\ UNCHANGED readCalls
    /\ UNCHANGED <<fetchVars, handlerVars, keyVars, peerVars>>

\* s.repo.UpdateProductsBatch(ctx, itemsToUpdate), likewise
ApplyUpdateBatch(txOk) ==
    /\ sPC = "done"
    /\ itemsToUpdate # <<>>
    /\ updateCalls = <<>>
    /\ storeReadOnly => ~txOk
    /\ store' = UpdateProductsBatch(store, itemsToUpdate, txOk).store
    /\ updateCalls' = <<itemsToUpdate>>
    /\ UNCHANGED <<externalItems, sPC, run, rerun, dbProducts, dbProductMap,
                   itemsToCreate, itemsToUpdate, result, syncErr, createG, updateG,
                   errChan, createCalls, syncRet, storeReadOnly>>
    /\ UNCHANGED readCalls
    /\ UNCHANGED <<fetchVars, handlerVars, keyVars, peerVars>>

\* the table as the transaction of CreateProductsBatch sees it after its
\* first n statements
CreateStatements(st, products, n) == InsertAll(st, SubSeq(products, 1, n))

\* defer tx.Rollback(): what the transaction did is discarded
Rollback(st, work) == st

\* CreateProductsBatch when its step failAt fails: statement failAt for
\* failAt in 1..Len(products), the commit for failAt = Len(products) + 1
CreateProductsBatchFailingAt(st, products, failAt) ==
    [store |-> Rollback(st, CreateStatements(st, products, failAt - 1)),
     err |-> TRUE]

\* the same for UpdateProductsBatch
UpdateStatements(st, updates, n) == UpdateAll(st, SubSeq(updates, 1, n)).store

UpdateProductsBatchFailingAt(st, updates, failAt) ==
    [store |-> Rollback(st, UpdateStatements(st, updates, failAt - 1)),
     err |-> TRUE]

\* the create batch of the finished pass is written and step failAt fails
FailCreateBatch(failAt) ==
    /\ sPC = "done"
    /\ itemsToCreate # <<>>
    /\ createCalls = <<>>
    /\ failAt \in 1..(Len(itemsToCreate) + 1)
    /\ store' = CreateProductsBatchFailingAt(store, itemsToCreate, failAt).store
    /\ createCalls' = <<itemsToCreate>>
    /\ UNCHANGED <<externalItems, sPC, run, rerun, dbProducts, dbProductMap,
                   itemsToCreate, itemsToUpdate, result, syncErr, createG, updateG,
                   errChan, updateCalls, syncRet, storeReadOnly>>
    /\ UNCHANGED readCalls
    /\ UNCHANGED <<fetchVars, handlerVars, keyVars, peerVars>>

\* the update batch of the finished pass is written and step failAt fails
FailUpdateBatch(failAt) ==
    /\ sPC = "done"
    /\ itemsToUpdate # <<>>
    /\ updateCalls = <<>>
    /\ failAt \in 1..(Len(itemsToUpdate) + 1)
    /\ store' = UpdateProductsBatchFailingAt(store, itemsToUpdate, failAt).store
    /\ updateCalls' = <<itemsToUpdate>>
    /\ UNCHANGED <<externalItems, sPC, run, rerun, dbProducts, dbProductMap,
                   itemsToCreate, itemsToUpdate, result, syncErr, createG, updateG,
                   errChan, createCalls, syncRet, storeReadOnly>>
    /\ UNCHANGED readCalls
    /\ UNCHANGED <<fetchVars, handlerVars, keyVars, peerVars>>

NextApply ==
    \/ NextSync
    \/ \E txOk \in BOOLEAN : ApplyCreateBatch(txOk)
    \/ \E txOk \in BOOLEAN : ApplyUpdateBatch(txOk)

SpecApply == InitSync /\ [][NextApply]_vars

NextTx ==
    \/ NextApply
    \/ \E failAt \in 1..(MaxRemote + 1) : FailCreateBatch(failAt)
    \/ \E failAt \in 1..(MaxRemote + 1) : FailUpdateBatch(failAt)

SpecTx == InitSync /\ [][NextTx]_vars

\* no two products have the same comparison key
KeysUnique(st) ==
    \A p \in st, q \in st : normalizeTitle(p.Title) = normalizeTitle(q.Title) => p = q

\* C14: passes whose batch writes are applied never take a store without two
\* equal normalized titles to a store with two equal normalized titles.
C14_StoreKeysStayUnique ==
    [][KeysUnique(store) => KeysUnique(store')]_vars

\* the valid remote records that the lookup matches with snapshot record p
HitsOf(p) ==
    {i \in 1..Len(externalItems) :
       /\ IsValidItem(externalItems[i])
       /\ normalizeTitle(externalItems[i].ItemName) \in SnapshotKeys
       /\ MatchedProduct(normalizeTitle(externalItems[i].ItemName)) = p}

\* remote record i equals the snapshot record p in title and handle
SameAs(i, p) ==
    /\ p.Title = externalItems[i].ItemName
    /\ p.Handle = generateHandle(externalItems[i].ItemName)

UpdateIDs == {itemsToUpdate[i].ID : i \in 1..Len(itemsToUpdate)}

\* p is in neither batch and is still in the store as it was read
Untouched(p) ==
    /\ p.ID \notin UpdateIDs
    /\ \A i \in 1..Len(itemsToCreate) :
         normalizeTitle(itemsToCreate[i].Title) # normalizeTitle(p.Title)
    /\ p \in store

NothingDeleted == \A p \in Range(dbProducts) : \E q \in store : q.ID = p.ID

\* C18 as stated: a snapshot record that some remote record classifies as
\* unchanged, or that no remote record matches, is in neither batch and is the
\* same after the pass; no pass deletes a record.
C18_UnchangedRowsUntouched ==
    PassDone =>
      /\ \A p \in Range(dbProducts) :
           (HitsOf(p) = {} \/ \E i \in HitsOf(p) : SameAs(i, p)) => Untouched(p)
      /\ NothingDeleted

\* C18 amended: a snapshot record that every remote record matched with it
\* classifies as unchanged (in particular one matched by none) is in neither
\* batch and is the same after the pass; no pass deletes a record.
C18_UntouchedRowsKept ==
    PassDone =>
      /\ \A p \in Range(dbProducts) :
           (\A i \in HitsOf(p) : SameAs(i, p)) => Untouched(p)
      /\ NothingDeleted

\* the update batch was written and changed one row, while the row that was
\* classified unchanged and a row matched by no remote record are kept
C18_Witness ==
    /\ PassDone
    /\ result.Unchanged = 1
    /\ Len(itemsToUpdate) = 1
    /\ updateCalls = <<itemsToUpdate>>
    /\ \E p \in Range(dbProducts) : p \notin store
    /\ \E p \in Range(dbProducts) : HitsOf(p) # {} /\ Untouched(p)

\* C19: every entry of the create batch and of the update batch carries the
\* handle derived from its own title; a product stored with a stale handle
\* under an equal title gives one update entry with the derived handle.
C19_BatchHandlesDerived ==
    Classified =>
      /\ \A i \in 1..Len(itemsToCreate) :
           itemsToCreate[i].Handle = generateHandle(itemsToCreate[i].Title)
      /\ \A i \in 1..Len(itemsToUpdate) :
           itemsToUpdate[i].Handle = generateHandle(itemsToUpdate[i].Title)
      /\ (/\ dbProducts = <<[ID |-> 1, Title |-> <<"a">>, Handle |-> StaleHandle]>>
          /\ externalItems = <<[isString |-> TRUE, ItemName |-> <<"a">>]>>)
         => /\ itemsToUpdate = <<[ID |-> 1, Title |-> <<"a">>, Handle |-> <<"a">>]>>
            /\ itemsToCreate = <<>>

\* a pass over one product whose title equals the remote one and whose handle
\* is stale has classified the record as an update
C19_Witness ==
    /\ Classified
    /\ dbProducts = <<[ID |-> 1, Title |-> <<"a">>, Handle |-> StaleHandle]>>
    /\ externalItems = <<[isString |-> TRUE, ItemName |-> <<"a">>]>>
    /\ Len(itemsToUpdate) = 1

\* =========================================================================
\*  Handle and key derivation on its own
\* =========================================================================

\* the runes a title is built from: letters of both cases, a digit, the
\* hyphen, the two runes replaced by a hyphen, a tab, punctuation, accented
\* letters of both cases, the Kelvin sign, and the Greek capital and final
\* small sigma
KeyAlphabet ==
    {"a", "Z", "7", "-", " ", "_", "\t", "!", "é", "É", "U+212A", "U+03A3", "U+03C2"}

CafeLatte == <<"C", "a", "f", "é", " ", "L", "a", "t", "t", "é">>

\* "Product   Multiple   Spaces"
ProductMultipleSpaces ==
    <<"P", "r", "o", "d", "u", "c", "t", " ", " ", " ",
      "M", "u", "l", "t", "i", "p", "l", "e", " ", " ", " ",
      "S", "p", "a", "c", "e", "s">>

KeyTitles ==
    UNION {[1..n -> KeyAlphabet] : n \in 0..MaxTitleLen}
      \cup {CafeLatte, ProductMultipleSpaces}

\* the upper-case form of a rune (unicode.ToUpper); both small sigmas have
\* the capital sigma as their upper case
UpperRune(c) ==
    CASE c \in LowerLetters -> CHOOSE u \in UpperLetters : LowerOfUpper(u) = c
      [] c = "é" -> "É"
      [] c \in {"U+03C3", "U+03C2"} -> "U+03A3"
      [] OTHER -> c

ToUpper(s) == [i \in 1..Len(s) |-> UpperRune(s[i])]

Coffee == <<"C", "o", "f", "f", "e", "e">>
CoffeePadded == <<" ", " ", "c", "o", "f", "f", "e", "e", " ", " ">>
CoffeeUpper == <<"C", "O", "F", "F", "E", "E">>

\* second titles to compare a title with: itself, its upper-case form, both
\* between whitespace, and a title with one more letter
TitleVariants(t) ==
    {t, ToUpper(t), <<" ">> \o t \o <<"\t", " ">>,
     <<"\t">> \o ToUpper(t) \o <<" ">>, t \o <<"a">>}

KeyPairs ==
    UNION {{<<t, u>> : u \in TitleVariants(t)} : t \in KeyTitles}
      \cup {<<Coffee, CoffeePadded>>, <<Coffee, CoffeeUpper>>,
            <<CoffeePadded, CoffeeUpper>>}

InitKeys ==
    /\ kPC = "in"
    /\ \E pr \in KeyPairs : kTitle = pr[1] /\ kOther = pr[2]
    /\ kHandle = <<>>
    /\ kKey = <<>>
    /\ kOtherKey = <<>>
    /\ FetchIdle
    /\ SyncIdle
    /\ HandlerIdle
    /\ PeerIdle

\* handle := generateHandle(itemName); normalizedTitle := normalizeTitle(itemName)
DeriveKeys ==
    /\ kPC = "in"
    /\ kPC' = "out"
    /\ kHandle' = generateHandle(kTitle)
    /\ kKey' = normalizeTitle(kTitle)
    /\ kOtherKey' = normalizeTitle(kOther)
    /\ UNCHANGED <<kTitle, kOther, fetchVars, syncVars, handlerVars, peerVars>>

NextKeys == DeriveKeys

SpecKeys == InitKeys /\ [][NextKeys]_vars

\* the runes of a title that leave a rune in the handle: ASCII letters and
\* digits, the hyphen, the space and the underscore, and the one non-ASCII
\* rune whose lower case is an ASCII letter
LeavesRune(c) ==
    c \in LowerLetters \cup UpperLetters \cup Digits \cup {"-", " ", "_", "U+212A"}

\* C20: the derived handle holds only a-z, 0-9 and hyphens; every rune that is
\* no ASCII letter or digit, hyphen, space or underscore (accented letters
\* included) leaves nothing in the handle, so 'Café Latté' gives 'caf-latt'.
C20_HandleAlphabet ==
    kPC = "out" =>
      /\ \A i \in 1..Len(kHandle) : kHandle[i] \in LowerLetters \cup Digits \cup {"-"}
      /\ Len(kHandle) = Cardinality({i \in 1..Len(kTitle) : LeavesRune(kTitle[i])})
      /\ kTitle = CafeLatte => kHandle = <<"c", "a", "f", "-", "l", "a", "t", "t">>

\* the handle of 'Café Latté' has been derived
C20_Witness ==
    /\ kPC = "out"
    /\ kTitle = CafeLatte
    /\ kHandle = <<"c", "a", "f", "-", "l", "a", "t", "t">>

\* =========================================================================
\*  Entry point (Handler)
\* =========================================================================

BearerPrefix == <<"B", "e", "a", "r", "e", "r", " ">>

\* strings.HasPrefix
HasPrefix(s, prefix) ==
    /\ Len(s) >= Len(prefix)
    /\ SubSeq(s, 1, Len(prefix)) = prefix

\* strings.TrimPrefix
TrimPrefix(s, prefix) ==
    IF HasPrefix(s, prefix) THEN SubSeq(s, Len(prefix) + 1, Len(s)) ELSE s

\* the values of CRON_SECRET: unset or empty, and a secret
CronSecrets == {<<>>, <<"s">>}

\* the authorization headers a request carries: none, the bare prefix, the
\* prefix with the secret, with another token, the secret without the prefix,
\* a lower-case prefix, and the prefix twice
AuthHeaders ==
    {<<>>, BearerPrefix, BearerPrefix \o <<"s">>, BearerPrefix \o <<"x">>, <<"s">>,
     <<"b", "e", "a", "r", "e", "r", " ", "s">>,
     BearerPrefix \o BearerPrefix \o <<"s">>}

\* the session ids a successful login returns (loginResp.SessionID, empty
\* when the response body carries none)
SessionIDs == {"", "B1"}

\* the counts the remote service answers: none, one page, two pages
HandlerCounts == {0, 1, HandlerPageSize + 1}

\* the remote collection: record i of the service
RemoteCollection ==
    <<[isString |-> TRUE, ItemName |-> <<"a">>],
      [isString |-> TRUE, ItemName |-> <<"b">>],
      [isString |-> FALSE, ItemName |-> <<>>]>>

RemoteItem(i) == RemoteCollection[(i % Len(RemoteCollection)) + 1]

RemoteItems(ids) == [k \in 1..Len(ids) |-> RemoteItem(ids[k])]

\* the products table when the request arrives
HandlerStores ==
    {{}, {Product(1, <<"a">>, <<"a">>)}, {Product(1, <<"a">>, StaleHandle)}}

MsgUnauthorized == "Unauthorized"
MsgLoginFailed == "Login failed"
MsgCountFailed == "Failed to get item count"
MsgFetchFailed == "Failed to fetch items"
MsgSyncFailed == "Sync failed"
MsgSynchronized == "Successfully synchronized data from external API"

\* a request has arrived
InitHandler ==
    /\ hPC = "auth"
    /\ cronSecret \in CronSecrets
    /\ authHeader \in AuthHeaders
    /\ sessionID = "none"
    /\ itemCount = 0
    /\ status = 0
    /\ respMsg = "none"
    /\ respBody = <<>>
    /\ loginCalls = 0
    /\ countCalls = 0
    /\ logoutCalls = <<>>
    /\ logoutErr = "none"
    /\ loginErr = "none"
    /\ countErr = "none"
    /\ FetchIdle
    /\ store \in HandlerStores
    /\ externalItems = <<>>
    /\ sPC = "idle"
    /\ run = 0
    /\ rerun = FALSE
    /\ dbProducts = <<>>
    /\ dbProductMap = <<>>
    /\ itemsToCreate = <<>>
    /\ itemsToUpdate = <<>>
    /\ result = EmptyResult
    /\ syncErr = "none"
    /\ createG = "none"
    /\ updateG = "none"
    /\ errChan = <<>>
    /\ createCalls = <<>>
    /\ updateCalls = <<>>
    /\ syncRet = "none"
    /\ storeReadOnly = FALSE
    /\ readCalls = 0
    /\ KeysIdle
    /\ PeerIdle

\* mutation of AuthRejected: only the trimmed header is compared
AuthRejectedNoPrefixCheck(header, secret) ==
    TrimPrefix(header, BearerPrefix) # secret

\* !strings.HasPrefix(authHeader, "Bearer ") ||
\*   strings.TrimPrefix(authHeader, "Bearer ") != config.Auth.CRONSecret
AuthRejected(header, secret) ==
    \/ ~HasPrefix(header, BearerPrefix)
    \/ TrimPrefix(header, BearerPrefix) # secret

\* 1. security check
HandlerAuth ==
    /\ hPC = "auth"
    /\ IF AuthRejected(authHeader, cronSecret)
         THEN /\ status' = 401
              /\ respMsg' = MsgUnauthorized
              /\ hPC' = "end"
         ELSE /\ hPC' = "login"
              /\ UNCHANGED <<status, respMsg>>
    /\ UNCHANGED <<cronSecret, authHeader, sessionID, itemCount, respBody,
                   loginCalls, countCalls, logoutCalls, logoutErr, loginErr, countErr>>
    /\ UNCHANGED <<fetchVars, syncVars, keyVars, peerVars>>

\* sessionID, err := login(config); on success the logout is deferred
HandlerLogin(sid, ok) ==
    /\ hPC = "login"
    /\ loginCalls' = loginCalls + 1
    /\ IF ok
         THEN /\ sessionID' = sid
              /\ loginErr' = "nil"
              /\ hPC' = "count"
              /\ UNCHANGED <<status, respMsg>>
         ELSE /\ loginErr' = "failed"
              /\ status' = 500
              /\ respMsg' = MsgLoginFailed
              /\ hPC' = "end"
              /\ UNCHANGED sessionID
    /\ UNCHANGED <<cronSecret, authHeader, itemCount, respBody,
                   countCalls, logoutCalls, logoutErr, countErr>>
    /\ UNCHANGED <<fetchVars, syncVars, keyVars, peerVars>>

\* mutation of HandlerGetItemCount: the logout is deferred after the count
HandlerGetItemCountBeforeDefer(n, ok) ==
    /\ hPC = "count"
    /\ countCalls' = countCalls + 1
    /\ IF ok
         THEN /\ itemCount' = n
              /\ countErr' = "nil"
              /\ hPC' = "fetch"
              /\ UNCHANGED <<status, respMsg>>
         ELSE /\ countErr' = "failed"
              /\ status' = 500
              /\ respMsg' = MsgCountFailed
              /\ hPC' = "end"
              /\ UNCHANGED itemCount
    /\ UNCHANGED <<cronSecret, authHeader, sessionID, respBody,
                   loginCalls, logoutCalls, logoutErr, loginErr>>
    /\ UNCHANGED <<fetchVars, syncVars, keyVars, peerVars>>

\* count, err := getItemCount(config, sessionID)
HandlerGetItemCount(n, ok) ==
    /\ hPC = "count"
    /\ countCalls' = countCalls + 1
    /\ IF ok
         THEN /\ itemCount' = n
              /\ countErr' = "nil"
              /\ hPC' = "fetch"
              /\ UNCHANGED <<status, respMsg>>
         ELSE /\ countErr' = "failed"
              /\ status' = 500
              /\ respMsg' = MsgCountFailed
              /\ hPC' = "logout"
              /\ UNCHANGED itemCount
    /\ UNCHANGED <<cronSecret, authHeader, sessionID, respBody,
                   loginCalls, logoutCalls, logoutErr, loginErr>>
    /\ UNCHANGED <<fetchVars, syncVars, keyVars, peerVars>>

\* fetchAllItemsConcurrently(ctx, config, sessionID, count, pageSize, numWorkers):
\* channels made, workers, job sender and collector started
HandlerCallFetch ==
    /\ hPC = "fetch"
    /\ mPC = "idle"
    /\ totalCount' = itemCount
    /\ pageSize' = HandlerPageSize
    /\ numWorkers' = HandlerNumWorkers
    /\ jobs' = <<>>
    /\ jobsClosed' = FALSE
    /\ results' = <<>>
    /\ resultsClosed' = FALSE
    /\ skip' = 0
    /\ subPC' = "loop"
    /\ wPC' = [w \in 0..(HandlerNumWorkers - 1) |-> "range"]
    /\ wJob' = [w \in 0..(HandlerNumWorkers - 1) |-> NoJob]
    /\ wRes' = [w \in 0..(HandlerNumWorkers - 1) |-> NoResult]
    /\ allResults' = <<>>
    /\ collDone' = FALSE
    /\ mPC' = "wgWait"
    /\ inFlight' = [w \in 0..(HandlerNumWorkers - 1) |-> 0]
    /\ UNCHANGED <<cancelled, retItems, retErr, retSkip, fetchCount, fetchFailed>>
    /\ UNCHANGED <<syncVars, handlerVars, keyVars, peerVars>>

\* the goroutines of the fetch, and the request deadline; the job sender can
\* outlive the call
HandlerFetchStep ==
    /\ mPC # "idle"
    /\ NextFetch

\* mutation of HandlerFetchReturned: the error of the fetch is not checked
HandlerFetchReturnedIgnoresErr ==
    /\ hPC = "fetch"
    /\ mPC = "returned"
    /\ hPC' = "sync"
    /\ UNCHANGED <<cronSecret, authHeader, sessionID, itemCount, status, respMsg,
                   respBody, loginCalls, countCalls, logoutCalls, logoutErr,
                   loginErr, countErr>>
    /\ UNCHANGED <<fetchVars, syncVars, keyVars, peerVars>>

\* mutation of HandlerFetchReturned: a cancelled fetch is abandoned without
\* waiting for its workers
HandlerFetchReturnedAbandons ==
    /\ hPC = "fetch"
    /\ mPC = "returned" \/ (cancelled /\ mPC # "idle")
    /\ IF retErr # "nil"
         THEN /\ status' = 500
              /\ respMsg' = MsgFetchFailed
              /\ hPC' = "logout"
         ELSE /\ hPC' = "sync"
              /\ UNCHANGED <<status, respMsg>>
    /\ UNCHANGED <<cronSecret, authHeader, sessionID, itemCount,
                   respBody, loginCalls, countCalls, logoutCalls, logoutErr,
                   loginErr, countErr>>
    /\ UNCHANGED <<fetchVars, syncVars, keyVars, peerVars>>

\* allItems, err := fetchAllItemsConcurrently(...); if err != nil { 500; return }
HandlerFetchReturned ==
    /\ hPC = "fetch"
    /\ mPC = "returned"
    /\ IF retErr # "nil"
         THEN /\ status' = 500
              /\ respMsg' = MsgFetchFailed
              /\ hPC' = "logout"
         ELSE /\ hPC' = "sync"
              /\ UNCHANGED <<status, respMsg>>
    /\ UNCHANGED <<cronSecret, authHeader, sessionID, itemCount,
                   respBody, loginCalls, countCalls, logoutCalls, logoutErr,
                   loginErr, countErr>>
    /\ UNCHANGED <<fetchVars, syncVars, keyVars, peerVars>>

\* syncService.CompareAndSync(ctx, allItems)
HandlerCallSync ==
    /\ hPC = "sync"
    /\ sPC = "idle"
    /\ StartPass(RemoteItems(retItems))

\* the steps of the pass
HandlerSyncStep ==
    /\ hPC = "sync"
    /\ \/ \E ok \in BOOLEAN : ReadProducts(ok)
       \/ Classify
       \/ Dispatch
       \/ CreateGoroutine
       \/ UpdateGoroutine
       \/ WaitAndReturn

\* syncResult, err := ...; if err != nil { 500; return }; 200 with the JSON body
HandlerSyncReturned ==
    /\ hPC = "sync"
    /\ sPC \in {"done", "failed"}
    /\ IF syncErr # "nil"
         THEN /\ status' = 500
              /\ respMsg' = MsgSyncFailed
              /\ UNCHANGED respBody
         ELSE /\ status' = 200
              /\ respMsg' = MsgSynchronized
              /\ respBody' = <<[totalItems |-> itemCount,
                               itemsFetched |-> Len(retItems),
                               syncResult |-> result]>>
    /\ hPC' = "logout"
    /\ UNCHANGED <<cronSecret, authHeader, sessionID, itemCount,
                   loginCalls, countCalls, logoutCalls, logoutErr, loginErr, countErr>>
    /\ UNCHANGED <<fetchVars, syncVars, keyVars, peerVars>>

\* the deferred logout(config.ExternalAPI.ExternalAPIURL, sessionID), run when
\* Handler returns; its error is logged
HandlerLogout(ok) ==
    /\ hPC = "logout"
    /\ logoutCalls' = Append(logoutCalls, sessionID)
    /\ logoutErr' = IF ok THEN "nil" ELSE "failed"
    /\ hPC' = "end"
    /\ UNCHANGED <<cronSecret, authHeader, sessionID, itemCount, status, respMsg,
                   respBody, loginCalls, countCalls, loginErr, countErr>>
    /\ UNCHANGED <<fetchVars, syncVars, keyVars, peerVars>>

NextHandler ==
    \/ HandlerAuth
    \/ \E sid \in SessionIDs : \E ok \in BOOLEAN : HandlerLogin(sid, ok)
    \/ \E n \in HandlerCounts : \E ok \in BOOLEAN : HandlerGetItemCount(n, ok)
    \/ HandlerCallFetch
    \/ HandlerFetchStep
    \/ HandlerFetchReturned
    \/ HandlerCallSync
    \/ HandlerSyncStep
    \/ HandlerSyncReturned
    \/ \E ok \in BOOLEAN : HandlerLogout(ok)

SpecHandler == InitHandler /\ [][NextHandler]_vars

\* -------------------------------------------------- entry point properties

LoginSucceeded == loginErr = "nil"

\* Handler has returned or is running its deferred calls
HandlerReturning == hPC \in {"logout", "end"}

\* the count, fetch and sync stages are not running
StagesEnded ==
    /\ hPC \notin {"count", "fetch", "sync"}
    /\ mPC \in {"idle", "returned"}
    /\ sPC \in {"idle", "done", "failed"}

\* C15: when login succeeded, logout is called exactly once, with the session
\* id login returned, after the count, fetch and sync stages have ended,
\* whatever their outcome; the logout and its error leave the response as it
\* was written.
C15_LogoutOnceAfterStages ==
    /\ []((hPC = "end" /\ LoginSucceeded) => logoutCalls = <<sessionID>>)
    /\ [](logoutCalls # <<>> =>
            /\ LoginSucceeded
            /\ logoutCalls = <<sessionID>>
            /\ StagesEnded
            /\ status # 0)
    /\ [][(logoutCalls' # logoutCalls \/ logoutCalls # <<>>) =>
            /\ status' = status
            /\ respMsg' = respMsg
            /\ respBody' = respBody]_vars

\* the logout failed after a successful synchronization and the success
\* response stands
C15_Witness ==
    /\ hPC = "end"
    /\ sessionID = "B1"
    /\ logoutCalls = <<"B1">>
    /\ logoutErr = "failed"
    /\ status = 200
    /\ respMsg = MsgSynchronized

\* the header is "Bearer " followed by the configured secret
ValidCredential == authHeader = BearerPrefix \o cronSecret

\* C16: a request whose header is not the bearer credential is answered 401
\* Unauthorized and causes no login, count request, page request, store read
\* or write, or logout.
C16_UnauthorizedNoSideEffect ==
    (hPC # "auth" /\ ~ValidCredential) =>
      /\ hPC = "end"
      /\ status = 401
      /\ respMsg = MsgUnauthorized
      /\ respBody = <<>>
      /\ loginCalls = 0
      /\ countCalls = 0
      /\ mPC = "idle"
      /\ fetchCount = <<>>
      /\ sPC = "idle"
      /\ dbProducts = <<>>
      /\ createCalls = <<>>
      /\ updateCalls = <<>>
      /\ logoutCalls = <<>>

\* the secret sent without the "Bearer " prefix has been rejected
C16_Witness ==
    /\ hPC = "end"
    /\ cronSecret = <<"s">>
    /\ authHeader = <<"s">>
    /\ status = 401

\* C17: page fetching starts only after login and getItemCount succeeded,
\* CompareAndSync is invoked only after the fetch returned a nil error, and a
\* failed login, count, fetch or initial read gives a 500 response with no
\* later stage run (the deferred logout after a successful login apart).
\* A failed page request always ends in a 500 response and no classification:
\* its fetch returns the error, or it was dropped under a done context, which
\* fails the initial read.
C17_StagesOrdered ==
    /\ countCalls > 0 => LoginSucceeded
    /\ (mPC # "idle" \/ fetchCount # <<>>) => (LoginSucceeded /\ countErr = "nil")
    /\ sPC # "idle" => (mPC = "returned" /\ retErr = "nil")
    /\ loginErr = "failed" =>
         /\ hPC = "end" /\ status = 500
         /\ countCalls = 0 /\ mPC = "idle" /\ sPC = "idle" /\ logoutCalls = <<>>
    /\ countErr = "failed" =>
         /\ HandlerReturning /\ status = 500
         /\ mPC = "idle" /\ fetchCount = <<>> /\ sPC = "idle"
    /\ (mPC = "returned" /\ retErr # "nil") =>
         /\ sPC = "idle"
         /\ hPC # "fetch" => (HandlerReturning /\ status = 500)
    /\ (fetchFailed # {} /\ HandlerReturning) =>
         /\ status = 500
         /\ sPC \in {"idle", "failed"}
         /\ dbProducts = <<>>
    /\ sPC = "failed" =>
         /\ createG = "none" /\ updateG = "none"
         /\ createCalls = <<>> /\ updateCalls = <<>>
         /\ hPC # "sync" => (HandlerReturning /\ status = 500 /\ respBody = <<>>)

\* a page fetch failed: the request ended with 500, no pass was started and
\* the session was released
C17_Witness ==
    /\ hPC = "end"
    /\ retErr = "page"
    /\ status = 500
    /\ respMsg = MsgFetchFailed
    /\ sPC = "idle"
    /\ logoutCalls = <<sessionID>>

\* ------------------------------------------------ comparison key properties

IsBlank(c) == c \in {" ", "\t"}

\* two runes that are the same letter in the same or in different case
SameLetter(c, d) == c = d \/ d = UpperRune(c) \/ c = UpperRune(d)

\* t and u are blanks, n runes that agree up to case, and blanks again
SameUpToCaseAndPadding(t, u) ==
    \E n \in 0..Len(t) : \E i \in 1..(Len(t) + 1) : \E k \in 1..(Len(u) + 1) :
      /\ i + n - 1 <= Len(t)
      /\ k + n - 1 <= Len(u)
      /\ \A x \in 1..Len(t) : (x < i \/ x >= i + n) => IsBlank(t[x])
      /\ \A x \in 1..Len(u) : (x < k \/ x >= k + n) => IsBlank(u[x])
      /\ \A j \in 0..(n - 1) : SameLetter(t[i + j], u[k + j])

\* the number of blanks t starts with, and ends with
LeadingBlanks(t) ==
    CHOOSE n \in 0..Len(t) :
      /\ \A x \in 1..n : IsBlank(t[x])
      /\ n < Len(t) => ~IsBlank(t[n + 1])

TrailingBlanks(t) ==
    CHOOSE n \in 0..Len(t) :
      /\ \A x \in (Len(t) - n + 1)..Len(t) : IsBlank(t[x])
      /\ n < Len(t) => ~IsBlank(t[Len(t) - n])

\* C21: two titles that differ only in letter case and in leading/trailing
\* whitespace have the same comparison key ('Coffee', '  coffee  ', 'COFFEE');
\* whitespace inside the title is kept and a whitespace-only title has the
\* empty key.
C21_KeyIgnoresCaseAndPadding ==
    kPC = "out" =>
      /\ SameUpToCaseAndPadding(kTitle, kOther) => kKey = kOtherKey
      /\ kTitle = Coffee => kKey = <<"c", "o", "f", "f", "e", "e">>
      /\ IF \A x \in 1..Len(kTitle) : IsBlank(kTitle[x])
           THEN kKey = <<>>
           ELSE /\ Len(kKey) = Len(kTitle) - LeadingBlanks(kTitle) - TrailingBlanks(kTitle)
                /\ \A j \in 1..Len(kKey) :
                     IsBlank(kKey[j]) <=> IsBlank(kTitle[LeadingBlanks(kTitle) + j])

\* ------------------------------------------------ fetcher concurrency

RECURSIVE SumInFlight(_)
SumInFlight(ws) ==
    IF ws = {} THEN 0
    ELSE LET w == CHOOSE x \in ws : TRUE IN inFlight[w] + SumInFlight(ws \ {w})

\* C22: at any moment at most numWorkers calls of fetchItemsPage have not
\* returned, and each worker has at most one such call.
C22_BoundedConcurrency ==
    /\ \A w \in DOMAIN inFlight : inFlight[w] \in {0, 1}
    /\ SumInFlight(DOMAIN inFlight) <= numWorkers

\* both workers of a pool of two have a page request open
C22_Witness ==
    /\ numWorkers = 2
    /\ SumInFlight(DOMAIN inFlight) = 2
    /\ \A w \in Workers : wPC[w] = "fetching"

\* C23: once ctx is done no call of fetchItemsPage is made; a worker that holds
\* a job at its check then returns, without a request and without an outcome
\* for that job, and outcomes exist only for offsets that were requested.
C23_NoFetchAfterCancel ==
    /\ [][cancelled => fetchCount' = fetchCount]_vars
    /\ [][\A w \in Workers :
            (cancelled /\ wPC[w] = "select" /\ wPC'[w] # "select") =>
              /\ wPC'[w] = "done"
              /\ results' = results
              /\ wRes'[w] = wRes[w]]_vars
    /\ [](\A r \in Range(results) \cup Range(allResults) : r.Skip \in DOMAIN fetchCount)

\* a worker returned with a job in hand that was never requested, after the
\* context was done
C23_Witness ==
    /\ cancelled
    /\ \E w \in Workers :
         /\ wPC[w] = "done"
         /\ wJob[w].Top > 0
         /\ wJob[w].Skip \notin DOMAIN fetchCount

\* the call has returned and its goroutines have ended
FetchTerminated ==
    /\ mPC = "returned"
    /\ subPC = "done"
    /\ collDone
    /\ \A w \in Workers : wPC[w] = "done"

\* C24: with at least one worker and every page request returning, the call
\* returns and the job sender, the workers and the collector end, whether or
\* not the context becomes done; until then some goroutine can take a step.
C24_FetchTerminates ==
    /\ (numWorkers >= 1) => <>FetchTerminated
    /\ []((numWorkers >= 1 /\ ~FetchTerminated) => ENABLED FetchSteps)

\* a call whose context became done has returned with all goroutines ended
C24_Witness ==
    /\ FetchTerminated
    /\ cancelled
    /\ numWorkers = 2
    /\ skip < totalCount

\* C25: results is closed once, by the caller after every worker returned, so
\* no worker is left to send on it; jobs is closed once, by the job sender as
\* it ends; the outcomes are inspected only after the collector has drained
\* results and ended.
C25_ChannelProtocol ==
    /\ [](resultsClosed <=> mPC \in {"resultWait", "returned"})
    /\ [](resultsClosed => \A w \in Workers : wPC[w] = "done")
    /\ [][resultsClosed' # resultsClosed =>
            /\ resultsClosed'
            /\ mPC = "wgWait" /\ mPC' = "resultWait"
            /\ \A w \in Workers : wPC[w] = "done"]_vars
    /\ [](jobsClosed <=> subPC = "done")
    /\ [][jobsClosed' # jobsClosed =>
            /\ jobsClosed'
            /\ subPC = "loop" /\ subPC' = "done"]_vars
    /\ [](mPC = "returned" => (collDone /\ results = <<>>))
    /\ [][<<retItems, retErr, retSkip>>' # <<retItems, retErr, retSkip>> =>
            (collDone /\ results = <<>> /\ resultsClosed)]_vars

\* a call with two workers returned what its collector gathered, both
\* channels closed
C25_Witness ==
    /\ mPC = "returned"
    /\ numWorkers = 2
    /\ jobsClosed
    /\ resultsClosed
    /\ collDone
    /\ Len(allResults) >= 2

\* C26: when the context never became done, the call returns only after every
\* page was requested once and its outcome collected, also when a request
\* failed and the call returns that error.
C26_FailureDoesNotStopFetch ==
    (Returned /\ ~cancelled /\ numWorkers >= 1) =>
      /\ DOMAIN fetchCount = ExpectedOffsets(totalCount, pageSize)
      /\ \A o \in DOMAIN fetchCount : fetchCount[o] = 1
      /\ {allResults[i].Skip : i \in 1..Len(allResults)}
           = ExpectedOffsets(totalCount, pageSize)
      /\ Len(allResults) = CeilDiv(totalCount, pageSize)
      /\ \A o \in fetchFailed : \E i \in 1..Len(allResults) :
           allResults[i].Skip = o /\ allResults[i].Err
      /\ fetchFailed # {} => retErr = "page"

\* the first page failed, the call returned the error, and the other pages
\* were requested and collected all the same
C26_Witness ==
    /\ Returned
    /\ ~cancelled
    /\ retErr = "page"
    /\ fetchFailed = {0}
    /\ Len(allResults) >= 3
    /\ allResults[1].Err

\* ------------------------------------------------ phases of a pass

\* either batch goroutine has been started
BatchDispatched == createG # "none" \/ updateG # "none"

\* every remote record has been put in a batch, counted unchanged or reported
AllClassified ==
    Len(itemsToCreate) + Len(itemsToUpdate) + result.Unchanged
      + Cardinality({i \in 1..Len(result.Errors) : result.Errors[i] = InvalidItemError})
      = Len(externalItems)

\* C27: a pass reads the products once; nothing is classified before that read
\* has returned, no batch goroutine is started before every remote record is
\* classified, and no later step of the pass reads the store again.
C27_ReadClassifyDispatchOrder ==
    /\ [](sPC = "getAll" =>
            /\ readCalls = 0
            /\ itemsToCreate = <<>> /\ itemsToUpdate = <<>> /\ result = EmptyResult
            /\ ~BatchDispatched)
    /\ [](sPC \in {"classify", "dispatch", "wait", "done", "failed"} => readCalls = 1)
    /\ [](sPC \in {"classify", "failed"} =>
            /\ itemsToCreate = <<>> /\ itemsToUpdate = <<>> /\ result = EmptyResult
            /\ ~BatchDispatched)
    /\ [](BatchDispatched => (sPC \in {"wait", "done"} /\ AllClassified))
    /\ [][readCalls' > readCalls => (sPC = "getAll" /\ readCalls = 0)]_vars

\* both batch goroutines were started after one read and the classification
\* of two records
C27_Witness ==
    /\ sPC = "wait"
    /\ readCalls = 1
    /\ createG = "running"
    /\ updateG = "running"
    /\ Len(externalItems) = 2

\* =========================================================================
\*  Two CompareAndSync calls against the same store
\* =========================================================================

\* a second request reaches CompareAndSync with the same remote records while
\* the first call is under way or has returned
PeerStart ==
    /\ qPC = "idle"
    /\ sPC # "idle"
    /\ qExternalItems' = externalItems
    /\ qPC' = "getAll"
    /\ UNCHANGED <<qDbProducts, qItemsToCreate, qItemsToUpdate, qCreateG, qUpdateG>>
    /\ UNCHANGED <<fetchVars, syncVars, handlerVars, keyVars>>

\* mutation of PeerReadProducts: the read waits until no other call is
\* between its read and its return
PeerReadProductsLocked(ok) ==
    /\ qPC = "getAll"
    /\ sPC \notin {"classify", "dispatch", "wait"}
    /\ IF ok
         THEN /\ qDbProducts' = GetAllProducts(store)
              /\ qPC' = "classify"
         ELSE /\ qPC' = "failed"
              /\ UNCHANGED qDbProducts
    /\ UNCHANGED <<qExternalItems, qItemsToCreate, qItemsToUpdate, qCreateG, qUpdateG>>
    /\ UNCHANGED <<fetchVars, syncVars, handlerVars, keyVars>>

\* dbProducts, err := s.repo.GetAllProducts(ctx) in the second call
PeerReadProducts(ok) ==
    /\ qPC = "getAll"
    /\ IF ok
         THEN /\ qDbProducts' = GetAllProducts(store)
              /\ qPC' = "classify"
         ELSE /\ qPC' = "failed"
              /\ UNCHANGED qDbProducts
    /\ UNCHANGED <<qExternalItems, qItemsToCreate, qItemsToUpdate, qCreateG, qUpdateG>>
    /\ UNCHANGED <<fetchVars, syncVars, handlerVars, keyVars>>

\* the lookup map and the loop over externalItems in the second call
PeerClassify ==
    /\ qPC = "classify"
    /\ LET acc == ClassifyAll(qExternalItems, BuildProductMap(qDbProducts, <<>>), EmptyAcc)
       IN /\ qItemsToCreate' = acc.create
          /\ qItemsToUpdate' = acc.update
    /\ qPC' = "dispatch"
    /\ UNCHANGED <<qExternalItems, qDbProducts, qCreateG, qUpdateG>>
    /\ UNCHANGED <<fetchVars, syncVars, handlerVars, keyVars>>

\* the two go statements of the second call
PeerDispatch ==
    /\ qPC = "dispatch"
    /\ qCreateG' = IF Len(qItemsToCreate) > 0 THEN "running" ELSE "none"
    /\ qUpdateG' = IF Len(qItemsToUpdate) > 0 THEN "running" ELSE "none"
    /\ qPC' = "wait"
    /\ UNCHANGED <<qExternalItems, qDbProducts, qItemsToCreate, qItemsToUpdate>>
    /\ UNCHANGED <<fetchVars, syncVars, handlerVars, keyVars>>

\* the goroutines of the second call end (they call no repository
\* operation), wg.Wait() returns and the call returns
PeerReturn ==
    /\ qPC = "wait"
    /\ qCreateG' = IF qCreateG = "running" THEN "done" ELSE qCreateG
    /\ qUpdateG' = IF qUpdateG = "running" THEN "done" ELSE qUpdateG
    /\ qPC' = "done"
    /\ UNCHANGED <<qExternalItems, qDbProducts, qItemsToCreate, qItemsToUpdate>>
    /\ UNCHANGED <<fetchVars, syncVars, handlerVars, keyVars>>

\* one call of each request
InitConcurrent ==
    /\ InitSync
    /\ ~storeReadOnly

NextConcurrent ==
    \/ \E items \in SeqsUpTo(ExternalItems, MaxRemote) : run = 0 /\ StartPass(items)
    \/ \E ok \in BOOLEAN : ReadProducts(ok)
    \/ Classify
    \/ Dispatch
    \/ CreateGoroutine
    \/ UpdateGoroutine
    \/ WaitAndReturn
    \/ PeerStart
    \/ \E ok \in BOOLEAN : PeerReadProducts(ok)
    \/ PeerClassify
    \/ PeerDispatch
    \/ PeerReturn

SpecConcurrent == InitConcurrent /\ [][NextConcurrent]_vars

\* C28: a call's read of the store is never held back by another call that
\* is between its own read and its return, and two calls that read the same
\* snapshot for the same remote records build the same batches: a record new
\* to the store is in the create batch of both, and both start their create
\* goroutine.
C28_PassesNotIsolated ==
    /\ qPC = "getAll" => ENABLED PeerReadProducts(TRUE)
    /\ (/\ Classified /\ qPC \in {"dispatch", "wait", "done"}
        /\ qExternalItems = externalItems
        /\ qDbProducts = dbProducts)
         => (qItemsToCreate = itemsToCreate /\ qItemsToUpdate = itemsToUpdate)
    /\ (qPC \in {"wait", "done"} /\ qItemsToCreate # <<>>) => qCreateG # "none"

\* both calls read the store before either returned, both hold the same
\* non-empty create batch and both have their create goroutine running
C28_Witness ==
    /\ sPC = "wait" /\ qPC = "wait"
    /\ createG = "running" /\ qCreateG = "running"
    /\ itemsToCreate # <<>>
    /\ qItemsToCreate = itemsToCreate
    /\ createCalls = <<>>

\* ------------------------------------------------ repository properties

\* the rows the table gained since the snapshot of the pass was read
RowsInserted == Cardinality(store) - Len(dbProducts)

\* C29: the Created count of a pass with a create batch is the number of
\* entries of that batch, also when writing the batch inserts fewer rows
\* because entries with an existing handle are skipped.
C29_CreatedCountsBatchEntries ==
    PassDone =>
      /\ result.Created = Len(itemsToCreate)
      /\ createCalls # <<>> => RowsInserted <= result.Created

\* the create batch was written, one entry was inserted and another skipped,
\* and Created counts both
C29_Witness ==
    /\ PassDone
    /\ createCalls = <<itemsToCreate>>
    /\ result.Created = 2
    /\ RowsInserted = 1

HandlesUnique(st) == \A p \in st, q \in st : p.Handle = q.Handle => p = q

\* C30: writing a create batch skips every entry whose handle is already in
\* the table, without an error: the rows that were there are kept as they
\* are, no two rows share a handle afterwards, and once the batch is written
\* (its transaction committed), writing the same batch a second time returns
\* no error and changes nothing.
C30_CreateBatchIdempotent ==
    [][(createCalls = <<>> /\ createCalls' # <<>>) =>
         LET once == CreateProductsBatch(store, itemsToCreate, TRUE)
             twice == CreateProductsBatch(store', itemsToCreate, TRUE)
         IN /\ ~once.err
            /\ store' \in {store, once.store}
            /\ store \subseteq store'
            /\ HandlesUnique(store')
            /\ store' = once.store => twice = [store |-> store', err |-> FALSE]
            /\ CreateProductsBatch(once.store, itemsToCreate, TRUE) = once]_vars

\* a create batch of two entries with one handle and two titles was written:
\* the first entry was inserted, the second found its handle and was skipped
C30_Witness ==
    /\ PassDone
    /\ createCalls = <<itemsToCreate>>
    /\ Len(itemsToCreate) = 2
    /\ itemsToCreate[1].Handle = itemsToCreate[2].Handle
    /\ itemsToCreate[1].Title # itemsToCreate[2].Title
    /\ \E p \in store : /\ p.ID > Len(dbProducts)
                        /\ p.Title = itemsToCreate[1].Title
                        /\ p.Handle = itemsToCreate[1].Handle
    /\ ~\E p \in store : p.Title = itemsToCreate[2].Title /\ p.ID > Len(dbProducts)
    /\ HandlesUnique(store)

\* the whole batch written to st
CreateWritten(st, products) == InsertAll(st, products)

UpdateWritten(st, updates) == UpdateAll(st, updates)

HandleLenOfPrefix(t, n) == Cardinality({i \in 1..n : LeavesRune(t[i])})

\* C32: every space and every underscore of the title is one hyphen of the
\* handle and repeated hyphens are kept: a run of n consecutive spaces or
\* underscores of the title is a run of n consecutive hyphens at its place in
\* the handle, and 'Product   Multiple   Spaces' gives
\* 'product---multiple---spaces'.
C32_NoHyphenCollapsing ==
    kPC = "out" =>
      /\ \A i \in 1..Len(kTitle) : \A j \in i..Len(kTitle) :
           (\A m \in i..j : kTitle[m] \in {" ", "_"}) =>
             LET at == HandleLenOfPrefix(kTitle, i - 1)
             IN /\ at + (j - i + 1) <= Len(kHandle)
                /\ \A m \in 1..(j - i + 1) : kHandle[at + m] = "-"
      /\ Cardinality({i \in 1..Len(kHandle) : kHandle[i] = "-"})
           = Cardinality({i \in 1..Len(kTitle) : kTitle[i] \in {" ", "_", "-"}})
      /\ kTitle = ProductMultipleSpaces =>
           kHandle = <<"p", "r", "o", "d", "u", "c", "t", "-", "-", "-",
                       "m", "u", "l", "t", "i", "p", "l", "e", "-", "-", "-",
                       "s", "p", "a", "c", "e", "s">>

\* the handle of 'Product   Multiple   Spaces' has been derived
C32_Witness ==
    /\ kPC = "out"
    /\ kTitle = ProductMultipleSpaces
    /\ Len(kHandle) = Len(kTitle)

\* ------------------------------------------------ session and page fetches

\* no call of fetchItemsPage is open and every worker has returned
NoFetchInFlight ==
    /\ SumInFlight(DOMAIN inFlight) = 0
    /\ \A w \in DOMAIN wPC : wPC[w] = "done"

\* C33: fetchAllItemsConcurrently returns only when every worker has
\* returned, so when logout is called no page request with the session id is
\* open and none is made afterwards, also when the fetch was cancelled or a
\* page failed.
C33_NoFetchInFlightAtLogout ==
    /\ [](mPC = "returned" => NoFetchInFlight)
    /\ [](logoutCalls # <<>> => NoFetchInFlight)
    /\ [][logoutCalls' # <<>> => fetchCount' = fetchCount]_vars

\* logout was called after a fetch that was cancelled and in which a page
\* failed
C33_Witness ==
    /\ logoutCalls = <<"B1">>
    /\ cancelled
    /\ fetchCount # <<>>
    /\ fetchFailed # {}
    /\ retErr # "nil"
    /\ NoFetchInFlight

\* ------------------------------------------------ offset of the fetch error

\* the places of the failed outcomes in the order the collector received them
FailedOutcomes == {i \in 1..Len(allResults) : allResults[i].Err}

\* C34: when fetchAllItemsConcurrently returns a page error, the offset it
\* names is the offset of a request that failed, and it is the offset of the
\* first failed outcome in the order the collector received the outcomes.
C34_ErrorNamesFirstFailedOutcome ==
    (mPC = "returned" /\ retErr = "page") =>
      /\ retSkip \in fetchFailed
      /\ \E i \in FailedOutcomes :
           /\ allResults[i].Skip = retSkip
           /\ \A j \in FailedOutcomes : i <= j

\* two pages failed and the error names the higher offset, whose outcome the
\* collector received first
C34_Witness ==
    /\ mPC = "returned"
    /\ retErr = "page"
    /\ \E i \in FailedOutcomes : allResults[i].Skip < retSkip

\* ------------------------------------------------ classification per record

\* the class of one remote record against the snapshot
ClassOf(item) ==
    IF ~IsValidItem(item) THEN "invalid"
    ELSE IF normalizeTitle(item.ItemName) \notin SnapshotKeys THEN "create"
    ELSE LET p == MatchedProduct(normalizeTitle(item.ItemName))
         IN IF p.Title # item.ItemName \/ p.Handle # generateHandle(item.ItemName)
              THEN "update"
              ELSE "unchanged"

InClass(items, class) == {i \in 1..Len(items) : ClassOf(items[i]) = class}

\* the orders of n records
Orders(n) == {f \in [1..n -> 1..n] : \A i, j \in 1..n : f[i] = f[j] => i = j}

Reordered(items, f) == [i \in 1..Len(items) |-> items[f[i]]]

\* C35: the class of a remote record is a function of the record and the
\* snapshot: the batches and counts of a pass are those of its records
\* classified one by one, every order of the records gives the same number
\* of creates, updates, unchanged records and validation errors, and all
\* records with one key that the snapshot does not hold are in the create
\* batch.
C35_ClassIndependentOfOtherRecords ==
    Classified =>
      /\ Len(itemsToCreate) = Cardinality(InClass(externalItems, "create"))
      /\ Len(itemsToUpdate) = Cardinality(InClass(externalItems, "update"))
      /\ result.Unchanged = Cardinality(InClass(externalItems, "unchanged"))
      /\ Len(result.Errors) = Cardinality(InClass(externalItems, "invalid"))
      /\ \A f \in Orders(Len(externalItems)) :
           LET acc == ClassifyAll(Reordered(externalItems, f), dbProductMap, EmptyAcc)
           IN /\ Len(acc.create) = Len(itemsToCreate)
              /\ Len(acc.update) = Len(itemsToUpdate)
              /\ acc.unchanged = result.Unchanged
              /\ Len(acc.errors) = Len(result.Errors)
      /\ \A i \in InClass(externalItems, "create") :
           LET key == normalizeTitle(externalItems[i].ItemName)
           IN Cardinality({k \in 1..Len(itemsToCreate) :
                             normalizeTitle(itemsToCreate[k].Title) = key})
                = Cardinality({j \in InClass(externalItems, "create") :
                                 normalizeTitle(externalItems[j].ItemName) = key})
      /\ PassDone => result.Created = Cardinality(InClass(externalItems, "create"))

\* two remote records with different titles and one key that the non-empty
\* snapshot does not hold: both are in the create batch
C35_Witness ==
    /\ Classified
    /\ dbProducts # <<>>
    /\ Len(itemsToCreate) = 2
    /\ itemsToCreate[1].Title # itemsToCreate[2].Title
    /\ normalizeTitle(itemsToCreate[1].Title) = normalizeTitle(itemsToCreate[2].Title)

\* ------------------------------------------------ a pool without workers

NoWorkers == numWorkers = 0 /\ totalCount > 0

\* C36: with numWorkers = 0 and totalCount > 0 no page is requested and the
\* call returns no items and a nil error; the job sender cannot hand over its
\* first job and stays at it until ctx is done.
C36_NoWorkersReturnsEmpty ==
    /\ [](NoWorkers =>
            /\ fetchCount = <<>>
            /\ jobs = <<>>
            /\ allResults = <<>>
            /\ (mPC = "returned" => retItems = <<>> /\ retErr = "nil")
            /\ (~cancelled => subPC = "loop" /\ skip = 0 /\ ~jobsClosed)
            /\ ~ENABLED SubmitJob)
    /\ [](NoWorkers => <>(mPC = "returned"))

\* the call without workers has returned and its job sender is still blocked
C36_Witness ==
    /\ NoWorkers
    /\ mPC = "returned"
    /\ retItems = <<>>
    /\ retErr = "nil"
    /\ ~cancelled
    /\ subPC = "loop"

\* ------------------------------------------------ empty CRON secret

\* C37: when CRON_SECRET is empty or unset no request is authorized: whatever
\* the authorization header, the bare "Bearer " included, the request is
\* answered without a login.
C37_EmptySecretAuthorizesNothing ==
    cronSecret = <<>> =>
      /\ hPC \notin {"login", "count", "fetch", "sync", "logout"}
      /\ loginCalls = 0
      /\ hPC = "end" => status \in {401, 500}

\* ------------------------------------------------ idempotence

\* C38: a derived handle is its own handle and a comparison key is its own
\* key: generateHandle(generateHandle(t)) = generateHandle(t) and
\* normalizeTitle(normalizeTitle(t)) = normalizeTitle(t) for every title t.
C38_DerivationsIdempotent ==
    kPC = "out" =>
      /\ generateHandle(kHandle) = kHandle
      /\ normalizeTitle(kKey) = kKey
      /\ normalizeTitle(kOtherKey) = kOtherKey

\* handle and key of a title with a leading space and a capital letter, both
\* different from the title
C38_Witness ==
    /\ kPC = "out"
    /\ kTitle = <<" ", "Z">>
    /\ kHandle = <<"-", "z">>
    /\ kKey = <<"z">>
    /\ kOther = <<"\t", " ", "Z", " ">>
    /\ kOtherKey = <<"z">>

\* ------------------------------------------------ snapshot with equal keys

\* the snapshot records with comparison key key
SnapshotWithKey(key) ==
    {dbProducts[i] : i \in {j \in 1..Len(dbProducts) :
                              normalizeTitle(dbProducts[j].Title) = key}}

\* the one with the highest id
HighestID(ps) == CHOOSE p \in ps : \A q \in ps : q.ID <= p.ID

\* C39: the snapshot is in ascending id order and the lookup holds, for
\* every key, the snapshot record with the highest id among those with that
\* key; a remote record with that key is compared with that record only:
\* it is unchanged when it equals it, and otherwise its update entry carries
\* that record's id.
C39_LookupKeepsHighestID ==
    Classified =>
      /\ \A i, j \in 1..Len(dbProducts) : i < j => dbProducts[i].ID < dbProducts[j].ID
      /\ DOMAIN dbProductMap = SnapshotKeys
      /\ \A key \in SnapshotKeys :
           dbProductMap[key] = HighestID(SnapshotWithKey(key))
      /\ \A k \in 1..Len(itemsToUpdate) :
           LET key == normalizeTitle(itemsToUpdate[k].Title)
           IN /\ key \in SnapshotKeys
              /\ itemsToUpdate[k].ID = HighestID(SnapshotWithKey(key)).ID
      /\ \A key \in SnapshotKeys :
           LET p == HighestID(SnapshotWithKey(key))
               hits == {i \in 1..Len(externalItems) :
                          /\ IsValidItem(externalItems[i])
                          /\ normalizeTitle(externalItems[i].ItemName) = key}
               same == {i \in hits :
                          /\ externalItems[i].ItemName = p.Title
                          /\ generateHandle(externalItems[i].ItemName) = p.Handle}
           IN Cardinality({k \in 1..Len(itemsToUpdate) :
                             normalizeTitle(itemsToUpdate[k].Title) = key})
                = Cardinality(hits \ same)

\* two snapshot records have one key; the remote record equals the one with
\* the lower id and is an update of the one with the higher id
C39_Witness ==
    /\ Classified
    /\ Len(dbProducts) = 2
    /\ normalizeTitle(dbProducts[1].Title) = normalizeTitle(dbProducts[2].Title)
    /\ Len(externalItems) = 1
    /\ externalItems[1].ItemName = dbProducts[1].Title
    /\ generateHandle(externalItems[1].ItemName) = dbProducts[1].Handle
    /\ Len(itemsToUpdate) = 1
    /\ itemsToUpdate[1].ID = dbProducts[2].ID
    /\ result.Unchanged = 0

====
